---- MODULE Spec2Model ----
(***************************************************************************)
(* Notification relay: subscription / broadcast engine with access         *)
(* control (WebSocketManager, SubscriptionService, AccessControlService,   *)
(* NotificationService and the HTTP / WebSocket boundary of index.ts).     *)
(*                                                                         *)
(* Granularity.  Every handler is an async function; it can be suspended   *)
(* at each `await` of a Redis command.  One action of the model is one     *)
(* Redis command executing together with the synchronous continuation     *)
(* that runs when its reply arrives (up to the next command being issued). *)
(* All commands travel over one FIFO connection, so a continuation (which  *)
(* touches only process memory and sockets) commutes with the Redis        *)
(* commands of other handlers that execute before it runs.                 *)
(***************************************************************************)
EXTENDS Integers, Sequences, FiniteSets, TLC

(***************************************************************************)
(* Bounds of the model.                                                    *)
(***************************************************************************)
MaxSockets == 2      \* WebSocket connections ever opened
MaxNotifs  == 2      \* publish requests ever accepted
MaxTasks   == 2      \* handlers suspended at an await at the same time
MaxRequests == 4     \* requests and socket events given to a server started on an empty store
MaxServing == 3      \* requests and socket events given to a server started on a filled store
MaxAccess == 4       \* connects, grants, revokes and publishes of the access scenarios
MaxSession == 4      \* connects, frames, closes, expiries and publishes of the session scenarios
MaxHistory == 4      \* publishes and history reads of the history scenarios
MaxCreate == 3       \* create requests of the channel-creation scenarios
MaxLifecycle == 4    \* requests of the channel life-cycle scenarios
CLIENT_ID_EXPIRATION == 2   \* the TTL of an identity record, in seconds
MaxIdentity == 4     \* requests and seconds of the identity scenarios
MaxRemoval == 3      \* requests of the client-removal scenarios
MaxApi == 2          \* requests of the one-request-at-a-time scenarios

ClientIds == {"c1", "c2"}
Channels  == {"demo", "priv"}
Sockets   == 1..MaxSockets
NotifIds  == 1..MaxNotifs
TaskIds   == 1..MaxTasks

NoClient  == "-"
NoChannel == "-"
NoSocket  == 0
NoNotif   == 0

(***************************************************************************)
(* Regular expressions of allowedPatterns.  The model carries one pattern, *)
(* "1$" (ids ending in 1); RegExpTest is `new RegExp(pattern).test(id)`    *)
(* tabulated for the client ids of the model.                              *)
(***************************************************************************)
Patterns == {"1$"}

RegExpTest(pattern, clientId) ==
    CASE pattern = "1$" -> clientId \in {"c1"}
      [] OTHER -> FALSE

(***************************************************************************)
(* A Redis hash `channel:<name>:rules`.  `fields` is the set of hash       *)
(* fields that are present; a hash without fields does not exist.  Field   *)
(* values are kept as createChannel writes them: isPublic as "1"/"0",      *)
(* the two lists as JSON arrays (sequences).  Absent fields hold the       *)
(* values below so that every hash has one representation.                 *)
(***************************************************************************)
RuleFields == {"allowedClientIds", "allowedPatterns", "maxSubscribers", "isPublic"}

NoRules == [fields |-> {}, allowedClientIds |-> <<>>, allowedPatterns |-> <<>>,
            maxSubscribers |-> 0, isPublic |-> "0"]

\* HSET key {field: value ...}: sets the fields of `upd`, keeps the others.
HSet(cur, upd) ==
    [fields |-> cur.fields \cup upd.fields,
     allowedClientIds |-> IF "allowedClientIds" \in upd.fields
                          THEN upd.allowedClientIds ELSE cur.allowedClientIds,
     allowedPatterns |-> IF "allowedPatterns" \in upd.fields
                         THEN upd.allowedPatterns ELSE cur.allowedPatterns,
     maxSubscribers |-> IF "maxSubscribers" \in upd.fields
                        THEN upd.maxSubscribers ELSE cur.maxSubscribers,
     isPublic |-> IF "isPublic" \in upd.fields THEN upd.isPublic ELSE cur.isPublic]

\* EXISTS key
KeyExists(hash) == hash.fields # {}

\* Array.prototype.includes
Includes(list, x) == \E i \in 1..Len(list) : list[i] = x

\* Faulty variant: list.splice(list.indexOf(x), 1), which drops the last
\* entry when x is not in the list.
FilterOutSplice(list, x) ==
    LET at == {i \in 1..Len(list) : list[i] = x}
        k == IF at = {} THEN Len(list) ELSE CHOOSE i \in at : \A j \in at : i <= j
    IN  [i \in 1..(IF list = <<>> THEN 0 ELSE Len(list) - 1) |->
            IF i < k THEN list[i] ELSE list[i + 1]]

\* Array.prototype.filter(id => id !== x)
RECURSIVE FilterOut(_, _)
FilterOut(list, x) ==
    IF list = <<>> THEN <<>>
    ELSE IF Head(list) = x THEN FilterOut(Tail(list), x)
    ELSE <<Head(list)>> \o FilterOut(Tail(list), x)

(***************************************************************************)
(* The rules a create-channel request can carry (req.body.rules).          *)
(***************************************************************************)
RuleInputs ==
    { [isPublic |-> TRUE,  allowedClientIds |-> <<>>, allowedPatterns |-> <<>>, maxSubscribers |-> 0],
      [isPublic |-> FALSE, allowedClientIds |-> <<>>, allowedPatterns |-> <<>>, maxSubscribers |-> 1],
      [isPublic |-> FALSE, allowedClientIds |-> <<>>, allowedPatterns |-> <<"1$">>, maxSubscribers |-> 0] }

\* The hash createChannel stores for a rules object.
ChannelRules(r) ==
    [fields |-> RuleFields,
     allowedClientIds |-> r.allowedClientIds,
     allowedPatterns |-> r.allowedPatterns,
     maxSubscribers |-> r.maxSubscribers,
     isPublic |-> IF r.isPublic THEN "1" ELSE "0"]

\* The rules of the start-up demo channel.
DEMO_MAX_SUBSCRIBERS == 1000
DemoRules == [isPublic |-> TRUE, allowedClientIds |-> <<>>, allowedPatterns |-> <<>>,
              maxSubscribers |-> DEMO_MAX_SUBSCRIBERS]

\* History kept per channel (LTRIM key 0 999).
HISTORY_LAST == 999

(***************************************************************************)
(* State.                                                                  *)
(***************************************************************************)
VARIABLES
    \* Redis
    clientRec,      \* per id the seconds the key client:<id> has to live (0: no key)
    rules,          \* channel -> hash channel:<channel>:rules
    chanSubs,       \* channel -> set subscription:<channel>
    clientSubs,     \* client  -> set client-subscriptions:<client>
    history,        \* channel -> list notification:<channel>, newest first
    \* process memory of the server
    clients,        \* WebSocketManager.clients: client id -> socket of the session
    sessChannels,   \* socket -> WebSocketClient.subscribedChannels of its session
    tasks,          \* handlers suspended at an await
    \* sockets
    sockState,      \* socket -> "free" | "open" | "closing" | "closed"
    sockOwner,      \* socket -> client id of the connection URI
    sockHandlers,   \* socket -> message/close handlers are attached
    timers,         \* socket -> client id held by the validation interval set up
                    \* for its session (NoClient: no interval, or cleared)
    \* HTTP boundary
    resp,           \* body of the last answer of GET /api/notifications/:channel
    \* observation
    budget,         \* requests and socket events the server can still be given
    nextNotif,      \* notifications created so far
    sent,           \* frames written to sockets by the last step
    notifCount,     \* client id -> notification id -> frames of it written so far to
                    \* sockets opened for that client id
    faultAt,        \* notification id -> subscriber whose access check hit a
                    \* persistence error during its broadcast
    grantLog,       \* <<client, channel>> -> "granted": a grant returned; "revoked": a revoke
                    \* returned after it; "none": otherwise, or a new grant has arrived
                    \* or written the allow-list since
    elig,           \* notification -> clients eligible ever since its publish began
    overlap         \* the delete handlers during which another handler has been in
                    \* flight on the same channel (for a delete of a client: any handler)

redisVars  == <<clientRec, rules, chanSubs, clientSubs, history>>
memVars    == <<clients, sessChannels, tasks>>
sockVars   == <<sockState, sockOwner, sockHandlers>>
obsVars    == <<budget, nextNotif, sent, notifCount, faultAt, grantLog, elig, overlap>>
vars       == <<clientRec, rules, chanSubs, clientSubs, history,
                clients, sessChannels, tasks,
                sockState, sockOwner, sockHandlers, timers, resp,
                budget, nextNotif, sent, notifCount, faultAt, grantLog, elig, overlap>>

(***************************************************************************)
(* Suspended handlers.                                                     *)
(***************************************************************************)
Idle == [kind |-> "idle", pc |-> "-", cid |-> NoClient, ch |-> NoChannel,
         sock |-> NoSocket, notif |-> NoNotif, subs |-> {}, todo |-> {},
         seen |-> {}, snap |-> NoRules, after |-> {}, limit |-> 0]

\* Frames a socket can be sent.
Frame(type, ch, n) == [type |-> type, ch |-> ch, notif |-> n]

\* Close codes of ws.close.
CLOSE_INVALID_ID == 4001        \* handleConnection, handleMessage, the validation interval
CLOSE_MISSING_ID == 4000        \* wss.on("connection") without ?clientId
CLOSE_CONNECTION_ERROR == 4000  \* the catch of handleConnection

\* The close frame of ws.close(code, reason): it carries the reason where the
\* other frames carry a channel, and the code where they carry a notification.
CloseFrame(code, reason) == Frame("close", reason, code)

\* No history read has been answered yet.
NoResp == [status |-> 0, body |-> <<>>]

\* The identity records of the ids `ids`, each with its full time to live.
Registered(ids) == [x \in ClientIds |-> IF x \in ids THEN CLIENT_ID_EXPIRATION ELSE 0]

FreeTasks == {t \in TaskIds : tasks[t].kind = "idle"}
\* A new handler takes the lowest free slot.
NewTask == CHOOSE t \in FreeTasks : \A u \in FreeTasks : t <= u

FreeSockets == {s \in Sockets : sockState[s] = "free"}
NewSocket == CHOOSE s \in FreeSockets : \A u \in FreeSockets : s <= u

Init ==
    /\ clientRec = Registered({})
    \* initializeDemoChannel() issues its HSET before any handler can issue a
    \* command, and commands execute in the order they were issued.
    /\ rules = [c \in Channels |-> IF c = "demo" THEN ChannelRules(DemoRules) ELSE NoRules]
    /\ chanSubs = [c \in Channels |-> {}]
    /\ clientSubs = [x \in ClientIds |-> {}]
    /\ history = [c \in Channels |-> <<>>]
    /\ clients = [x \in ClientIds |-> NoSocket]
    /\ sessChannels = [s \in Sockets |-> {}]
    /\ tasks = [t \in TaskIds |-> Idle]
    /\ sockState = [s \in Sockets |-> "free"]
    /\ sockOwner = [s \in Sockets |-> NoClient]
    /\ sockHandlers = [s \in Sockets |-> FALSE]
    /\ timers = [s \in Sockets |-> NoClient]
    /\ resp = NoResp
    /\ notifCount = [x \in ClientIds |-> [n \in NotifIds |-> 0]]
    /\ faultAt = [n \in NotifIds |-> NoClient]
    /\ budget = MaxRequests
    /\ nextNotif = 0
    /\ sent = {}
    /\ grantLog = [p \in ClientIds \X Channels |-> "none"]
    /\ elig = [n \in NotifIds |-> {}]
    /\ overlap = {}

(***************************************************************************)
(* AccessControlService                                                    *)
(***************************************************************************)
\* JSON.parse(rules.allowedClientIds || "[]")
AllowedClientIds(hash) ==
    IF "allowedClientIds" \in hash.fields THEN hash.allowedClientIds ELSE <<>>

\* JSON.parse(rules.allowedPatterns || "[]")
AllowedPatterns(hash) ==
    IF "allowedPatterns" \in hash.fields THEN hash.allowedPatterns ELSE <<>>

\* rules.isPublic === "1"
IsPublic(hash) == "isPublic" \in hash.fields /\ hash.isPublic = "1"

\* Faulty variant: access by allow-list only, allowedPatterns is not read.
HasChannelAccessNoPatterns(hash, clientId) ==
    \/ IsPublic(hash)
    \/ Includes(AllowedClientIds(hash), clientId)

\* hasChannelAccess on the hash HGETALL returned ({} for a missing key).
HasChannelAccess(hash, clientId) ==
    \/ IsPublic(hash)
    \/ Includes(AllowedClientIds(hash), clientId)
    \/ \E i \in 1..Len(AllowedPatterns(hash)) :
           RegExpTest(AllowedPatterns(hash)[i], clientId)

\* validateClientId: EXISTS client:<id> (the refresh only moves the deadline).
ValidateClientId(clientId) == clientId \in ClientIds /\ clientRec[clientId] > 0

\* Faulty variant: the validation leaves the deadline where it is.
RefreshClientIdNoExpire(clientId) == clientRec

\* refreshClientId: EXISTS, then EXPIRE client:<id> clientIdExpiration
RefreshClientId(clientId) ==
    [clientRec EXCEPT ![clientId] = IF @ > 0 THEN CLIENT_ID_EXPIRATION ELSE @]

\* validateChannel: EXISTS channel:<channel>:rules
ValidateChannel(channel) == channel \in Channels /\ KeyExists(rules[channel])

\* generateClientId: HSET client:<id> and EXPIRE it, under the id the service
\* has made up (client-<time>-<random>).
GenerateClientId(clientId) == [clientRec EXCEPT ![clientId] = CLIENT_ID_EXPIRATION]

(***************************************************************************)
(* Sockets                                                                 *)
(***************************************************************************)
\* ws.send: a frame reaches the peer only while the socket is open.
SendTo(s, frame) == IF sockState[s] = "open" THEN {<<s, frame>>} ELSE {}

\* The session registered for a client id, if its socket is open.
OpenSessionOf(clientId) ==
    IF clients[clientId] # NoSocket /\ sockState[clients[clientId]] = "open"
    THEN {clients[clientId]} ELSE {}

\* ws.close(code, reason): an open socket starts the closing handshake.
Closing(s) == [sockState EXCEPT ![s] = IF @ = "open" THEN "closing" ELSE @]

Finish(t) == [tasks EXCEPT ![t] = Idle]

Quiet == sent' = {}

(***************************************************************************)
(* Identities                                                              *)
(***************************************************************************)
\* POST /api/clients with a requested id: an id that validates is answered
\* as it is, otherwise a record is generated (under a new id of the service).
HttpCreateClient(x) ==
    /\ IF ValidateClientId(x)
       THEN /\ clientRec' = RefreshClientId(x)
       ELSE \E id \in {y \in ClientIds : ~ValidateClientId(y)} :
                clientRec' = GenerateClientId(id)
    /\ sent' = {}
    /\ UNCHANGED <<rules, chanSubs, clientSubs, history, memVars, sockVars,
                   nextNotif, grantLog>>
    /\ UNCHANGED <<faultAt, timers, resp>>

\* GET /api/clients/:clientId: validateClientId, then refreshClientId; an id
\* that does not validate is answered 400 "Invalid client ID".
HttpValidateClient(x) ==
    /\ resp' = [status |-> IF ValidateClientId(x) THEN 200 ELSE 400, body |-> <<>>]
    /\ clientRec' = RefreshClientId(x)
    /\ Quiet
    /\ UNCHANGED <<rules, chanSubs, clientSubs, history, memVars, sockVars,
                   nextNotif, grantLog>>
    /\ UNCHANGED <<faultAt, timers>>

\* A second passes: every key with a time to live has one second less, and
\* a key whose time is up is gone.
Second ==
    /\ clientRec' = [x \in ClientIds |-> IF clientRec[x] > 0 THEN clientRec[x] - 1 ELSE 0]
    /\ Quiet
    /\ UNCHANGED <<rules, chanSubs, clientSubs, history, memVars, sockVars,
                   nextNotif, grantLog>>
    /\ UNCHANGED <<faultAt, timers, resp>>

\* The deadline set by EXPIRE passes without a refresh.
ExpireClientId(x) ==
    /\ ValidateClientId(x)
    /\ clientRec' = [clientRec EXCEPT ![x] = 0]
    /\ Quiet
    /\ UNCHANGED <<rules, chanSubs, clientSubs, history, memVars, sockVars,
                   nextNotif, grantLog>>
    /\ UNCHANGED <<faultAt, timers, resp>>

(***************************************************************************)
(* POST /api/channels                                                      *)
(***************************************************************************)
\* Faulty variant: createChannel is called without the tests of the route.
HttpCreateChannelNoCheck(c, r) ==
    /\ sent' = {}
    /\ c # NoChannel
    /\ FreeTasks # {}
    /\ tasks' = [tasks EXCEPT ![NewTask] =
           [Idle EXCEPT !.kind = "create", !.pc = "hset", !.ch = c,
                        !.snap = ChannelRules(r)]]
    /\ UNCHANGED <<redisVars, clients, sessChannels, sockVars,
                   nextNotif, grantLog>>
    /\ UNCHANGED <<faultAt, timers, resp>>

\* The route up to createChannel: a request without channel name is answered
\* 400, one for an existing channel 409.
HttpCreateChannel(c, r) ==
    /\ sent' = {}
    /\ IF c = NoChannel \/ ValidateChannel(c)
       THEN /\ UNCHANGED tasks
       ELSE /\ FreeTasks # {}
            /\ tasks' = [tasks EXCEPT ![NewTask] =
                   [Idle EXCEPT !.kind = "create", !.pc = "hset", !.ch = c,
                                !.snap = ChannelRules(r)]]
    /\ UNCHANGED <<redisVars, clients, sessChannels, sockVars,
                   nextNotif, grantLog>>
    /\ UNCHANGED <<faultAt, timers, resp>>

\* POST /api/test/private-channel: createChannel with fixed rules for the
\* client id of the body, without validateChannel (the endpoint's channel
\* "private" is the model's "priv").
TEST_MAX_SUBSCRIBERS == 100

TestPrivateRules(clientId) ==
    [isPublic |-> FALSE, allowedClientIds |-> <<clientId>>, allowedPatterns |-> <<>>,
     maxSubscribers |-> TEST_MAX_SUBSCRIBERS]

HttpTestPrivateChannel(x) ==
    /\ sent' = {}
    /\ FreeTasks # {}
    /\ tasks' = [tasks EXCEPT ![NewTask] =
           [Idle EXCEPT !.kind = "create", !.pc = "hset", !.ch = "priv",
                        !.snap = ChannelRules(TestPrivateRules(x))]]
    /\ UNCHANGED <<redisVars, clients, sessChannels, sockVars,
                   nextNotif, grantLog>>
    /\ UNCHANGED <<faultAt, timers, resp>>

\* initializeDemoChannel() at start-up, suspended at the HSET of createChannel.
InitializeDemoChannel ==
    [Idle EXCEPT !.kind = "create", !.pc = "hset", !.ch = "demo",
                 !.snap = ChannelRules(DemoRules)]

\* createChannel: HSET channel:<channel>:rules (all four fields)
CreateChannelHset(t) ==
    /\ tasks[t].kind = "create" /\ tasks[t].pc = "hset"
    /\ rules' = [rules EXCEPT ![tasks[t].ch] = HSet(@, tasks[t].snap)]
    /\ tasks' = Finish(t)
    /\ sent' = {}
    /\ UNCHANGED <<clientRec, chanSubs, clientSubs, history, clients, sessChannels,
                   sockVars, nextNotif, grantLog>>
    /\ UNCHANGED <<faultAt, timers, resp>>

(***************************************************************************)
(* POST /api/channels/:channel/access/:clientId  (grant)                   *)
(***************************************************************************)
HttpGrant(c, x) ==
    /\ sent' = {}
    /\ IF ~ValidateChannel(c)
       THEN /\ UNCHANGED <<tasks, grantLog>>
       ELSE /\ FreeTasks # {}
            /\ tasks' = [tasks EXCEPT ![NewTask] =
                   [Idle EXCEPT !.kind = "grant", !.pc = "rules", !.ch = c, !.cid = x]]
            /\ grantLog' = [grantLog EXCEPT ![<<x, c>>] = "none"]
    /\ UNCHANGED <<redisVars, clients, sessChannels, sockVars, nextNotif>>
    /\ UNCHANGED <<faultAt, timers, resp>>

\* Faulty variant: the allow-list update is computed without the
\* public-channel test.
GrantRulesNoPublicTest(t) ==
    LET c == tasks[t].ch
        x == tasks[t].cid
        hash == rules[c]
    IN  /\ tasks[t].kind = "grant" /\ tasks[t].pc = "rules"
        /\ sent' = {}
        /\ IF Includes(AllowedClientIds(hash), x)
           THEN tasks' = [tasks EXCEPT ![t].pc = "sadd1"]
           ELSE tasks' = [tasks EXCEPT ![t].pc = "hset",
                            ![t].snap = [hash EXCEPT
                               !.fields = @ \cup {"allowedClientIds"},
                               !.allowedClientIds = Append(AllowedClientIds(hash), x)]]
        /\ UNCHANGED <<redisVars, clients, sessChannels, sockVars,
                       nextNotif, grantLog>>
        /\ UNCHANGED <<faultAt, timers, resp>>

\* Faulty variant: the client id is pushed without the includes test.
GrantRulesAlwaysPush(t) ==
    LET c == tasks[t].ch
        x == tasks[t].cid
        hash == rules[c]
    IN  /\ tasks[t].kind = "grant" /\ tasks[t].pc = "rules"
        /\ sent' = {}
        /\ IF IsPublic(hash)
           THEN /\ tasks' = Finish(t)
           ELSE /\ tasks' = [tasks EXCEPT ![t].pc = "hset",
                                ![t].snap = [hash EXCEPT
                                   !.fields = @ \cup {"allowedClientIds"},
                                   !.allowedClientIds = Append(AllowedClientIds(hash), x)]]
        /\ UNCHANGED <<redisVars, clients, sessChannels, sockVars,
                       nextNotif, grantLog>>
        /\ UNCHANGED <<faultAt, timers, resp>>

\* getChannelRules (HGETALL), the public-channel test and the allow-list update
\* computed from the hash that was read.
GrantRules(t) ==
    LET c == tasks[t].ch
        x == tasks[t].cid
        hash == rules[c]
    IN  /\ tasks[t].kind = "grant" /\ tasks[t].pc = "rules"
        /\ sent' = {}
        /\ IF IsPublic(hash)
           THEN /\ tasks' = Finish(t)
           ELSE /\ IF Includes(AllowedClientIds(hash), x)
                   THEN tasks' = [tasks EXCEPT ![t].pc = "sadd1"]
                   ELSE tasks' = [tasks EXCEPT ![t].pc = "hset",
                                    ![t].snap = [hash EXCEPT
                                       !.fields = @ \cup {"allowedClientIds"},
                                       !.allowedClientIds = Append(AllowedClientIds(hash), x)]]
        /\ UNCHANGED <<redisVars, clients, sessChannels, sockVars,
                       nextNotif, grantLog>>
        /\ UNCHANGED <<faultAt, timers, resp>>

\* HSET channel:<channel>:rules {...rules, allowedClientIds}
GrantHset(t) ==
    /\ tasks[t].kind = "grant" /\ tasks[t].pc = "hset"
    /\ rules' = [rules EXCEPT ![tasks[t].ch] = HSet(@, tasks[t].snap)]
    /\ tasks' = [tasks EXCEPT ![t].pc = "sadd1", ![t].snap = NoRules]
    /\ grantLog' = [grantLog EXCEPT ![<<tasks[t].cid, tasks[t].ch>>] = "none"]
    /\ Quiet
    /\ UNCHANGED <<clientRec, chanSubs, clientSubs, history, clients, sessChannels,
                   sockVars, nextNotif>>
    /\ UNCHANGED <<faultAt, timers, resp>>

(***************************************************************************)
(* DELETE /api/channels/:channel/access/:clientId  (revoke)                *)
(***************************************************************************)
HttpRevoke(c, x) ==
    /\ sent' = {}
    /\ IF ~ValidateChannel(c)
       THEN /\ UNCHANGED tasks
       ELSE /\ FreeTasks # {}
            /\ tasks' = [tasks EXCEPT ![NewTask] =
                   [Idle EXCEPT !.kind = "revoke", !.pc = "rules", !.ch = c, !.cid = x]]
    /\ UNCHANGED <<redisVars, clients, sessChannels, sockVars,
                   nextNotif, grantLog>>
    /\ UNCHANGED <<faultAt, timers, resp>>

\* getChannelRules (HGETALL) and the public-channel test
RevokeRules(t) ==
    /\ tasks[t].kind = "revoke" /\ tasks[t].pc = "rules"
    /\ sent' = {}
    /\ IF IsPublic(rules[tasks[t].ch])
       THEN /\ tasks' = Finish(t)
       ELSE /\ tasks' = [tasks EXCEPT ![t].pc = "read"]
    /\ UNCHANGED <<redisVars, clients, sessChannels, sockVars,
                   nextNotif, grantLog>>
    /\ UNCHANGED <<faultAt, timers, resp>>

\* revokeChannelAccess: HGETALL, filter the allow-list
RevokeChannelAccessRead(t) ==
    /\ tasks[t].kind = "revoke" /\ tasks[t].pc = "read"
    /\ tasks' = [tasks EXCEPT ![t].pc = "hset",
                   ![t].snap = [NoRules EXCEPT
                       !.fields = {"allowedClientIds"},
                       !.allowedClientIds =
                           FilterOut(AllowedClientIds(rules[tasks[t].ch]), tasks[t].cid)]]
    /\ Quiet
    /\ UNCHANGED <<redisVars, clients, sessChannels, sockVars,
                   nextNotif, grantLog>>
    /\ UNCHANGED <<faultAt, timers, resp>>

\* revokeChannelAccess: HSET channel:<channel>:rules {allowedClientIds}
RevokeChannelAccessHset(t) ==
    /\ tasks[t].kind = "revoke" /\ tasks[t].pc = "hset"
    /\ rules' = [rules EXCEPT ![tasks[t].ch] = HSet(@, tasks[t].snap)]
    /\ tasks' = Finish(t)
    /\ grantLog' = [grantLog EXCEPT ![<<tasks[t].cid, tasks[t].ch>>] =
                        IF @ = "granted" THEN "revoked" ELSE @]
    /\ sent' = {}
    /\ UNCHANGED <<clientRec, chanSubs, clientSubs, history, clients, sessChannels,
                   sockVars, nextNotif>>
    /\ UNCHANGED <<faultAt, timers, resp>>

(***************************************************************************)
(* POST /api/channels/:channel/subscribe and .../unsubscribe               *)
(***************************************************************************)
HttpSubscribe(c, x) ==
    /\ sent' = {}
    /\ IF ~ValidateChannel(c) \/ x = NoClient
       THEN /\ UNCHANGED tasks
       ELSE /\ FreeTasks # {}
            /\ tasks' = [tasks EXCEPT ![NewTask] =
                   [Idle EXCEPT !.kind = "httpsub", !.pc = "sadd1", !.ch = c, !.cid = x]]
    /\ UNCHANGED <<redisVars, clients, sessChannels, sockVars,
                   nextNotif, grantLog>>
    /\ UNCHANGED <<faultAt, timers, resp>>

\* The handler runs straight into unsubscribe: SREM client-subscriptions:<client>
HttpUnsubscribe(c, x) ==
    /\ IF x = NoClient
       THEN UNCHANGED <<clientSubs, tasks>>
       ELSE /\ FreeTasks # {}
            /\ clientSubs' = [clientSubs EXCEPT ![x] = @ \ {c}]
            /\ tasks' = [tasks EXCEPT ![NewTask] =
                   [Idle EXCEPT !.kind = "httpunsub", !.pc = "srem2", !.ch = c, !.cid = x]]
    /\ Quiet
    /\ UNCHANGED <<clientRec, rules, chanSubs, history, clients, sessChannels,
                   sockVars, nextNotif, grantLog>>
    /\ UNCHANGED <<faultAt, timers, resp>>

(***************************************************************************)
(* DELETE /api/channels/:channel                                           *)
(***************************************************************************)
\* The route up to its first change: EXISTS channel:<channel>:rules
HttpDeleteChannel(c) ==
    /\ Quiet
    /\ IF ~KeyExists(rules[c])
       THEN UNCHANGED tasks
       ELSE /\ FreeTasks # {}
            /\ tasks' = [tasks EXCEPT ![NewTask] =
                   [Idle EXCEPT !.kind = "delete", !.pc = "delrules", !.ch = c]]
    /\ UNCHANGED <<redisVars, clients, sessChannels, sockVars, nextNotif, grantLog>>
    /\ UNCHANGED <<faultAt, timers, resp>>

\* DEL channel:<channel>:rules
DeleteChannelRules(t) ==
    /\ tasks[t].kind = "delete" /\ tasks[t].pc = "delrules"
    /\ rules' = [rules EXCEPT ![tasks[t].ch] = NoRules]
    /\ tasks' = [tasks EXCEPT ![t].pc = "dsmembers"]
    /\ Quiet
    /\ UNCHANGED <<clientRec, chanSubs, clientSubs, history, clients, sessChannels,
                   sockVars, nextNotif, grantLog>>
    /\ UNCHANGED <<faultAt, timers, resp>>

\* SMEMBERS subscription:<channel>; the loop over the answer begins
DeleteChannelSubscribers(t) ==
    /\ tasks[t].kind = "delete" /\ tasks[t].pc = "dsmembers"
    /\ tasks' = [tasks EXCEPT ![t].todo = chanSubs[tasks[t].ch],
                              ![t].pc = IF chanSubs[tasks[t].ch] = {} THEN "delsubs"
                                                                      ELSE "dsrem"]
    /\ Quiet
    /\ UNCHANGED <<redisVars, clients, sessChannels, sockVars, nextNotif, grantLog>>
    /\ UNCHANGED <<faultAt, timers, resp>>

\* SREM client-subscriptions:<clientId> channel, for the next subscriber of
\* the answer (SMEMBERS answers in no particular order)
DeleteChannelSrem(t, x) ==
    /\ tasks[t].kind = "delete" /\ tasks[t].pc = "dsrem"
    /\ x \in tasks[t].todo
    /\ clientSubs' = [clientSubs EXCEPT ![x] = @ \ {tasks[t].ch}]
    /\ tasks' = [tasks EXCEPT ![t].todo = @ \ {x},
                              ![t].pc = IF tasks[t].todo = {x} THEN "delsubs" ELSE "dsrem"]
    /\ Quiet
    /\ UNCHANGED <<clientRec, rules, chanSubs, history, clients, sessChannels,
                   sockVars, nextNotif, grantLog>>
    /\ UNCHANGED <<faultAt, timers, resp>>

\* DEL subscription:<channel>
DeleteChannelSubscription(t) ==
    /\ tasks[t].kind = "delete" /\ tasks[t].pc = "delsubs"
    /\ chanSubs' = [chanSubs EXCEPT ![tasks[t].ch] = {}]
    /\ tasks' = [tasks EXCEPT ![t].pc = "delhist"]
    /\ Quiet
    /\ UNCHANGED <<clientRec, rules, clientSubs, history, clients, sessChannels,
                   sockVars, nextNotif, grantLog>>
    /\ UNCHANGED <<faultAt, timers, resp>>

\* DEL notification:<channel>; the route answers 200
DeleteChannelNotifications(t) ==
    /\ tasks[t].kind = "delete" /\ tasks[t].pc = "delhist"
    /\ history' = [history EXCEPT ![tasks[t].ch] = <<>>]
    /\ tasks' = Finish(t)
    /\ Quiet
    /\ UNCHANGED <<clientRec, rules, chanSubs, clientSubs, clients, sessChannels,
                   sockVars, nextNotif, grantLog>>
    /\ UNCHANGED <<faultAt, timers, resp>>

(***************************************************************************)
(* DELETE /api/clients/:clientId                                           *)
(***************************************************************************)
\* The route up to its first branch: validateClientId (EXISTS client:<id>)
HttpDeleteClient(x) ==
    /\ Quiet
    /\ IF ~ValidateClientId(x)
       THEN /\ resp' = [status |-> 404, body |-> <<>>]
            /\ UNCHANGED tasks
       ELSE /\ FreeTasks # {}
            /\ tasks' = [tasks EXCEPT ![NewTask] =
                   [Idle EXCEPT !.kind = "delclient", !.pc = "keys", !.cid = x]]
            /\ UNCHANGED resp
    /\ clientRec' = RefreshClientId(x)
    /\ UNCHANGED <<rules, chanSubs, clientSubs, history>>
    /\ UNCHANGED <<clients, sessChannels, sockVars, nextNotif, grantLog>>
    /\ UNCHANGED <<faultAt, timers>>

\* The pc of a delete-client handler whose scan of the rules keys has ended
\* with the channels `found`.
AfterScan(found) == IF found = {} THEN "smembers" ELSE "revread"

\* getAccessibleChannels: KEYS channel:*:rules
DeleteClientKeys(t) ==
    LET keys == {c \in Channels : KeyExists(rules[c])}
    IN  /\ tasks[t].kind = "delclient" /\ tasks[t].pc = "keys"
        /\ tasks' = [tasks EXCEPT ![t].subs = keys,
                        ![t].pc = IF keys = {} THEN "smembers" ELSE "scan"]
        /\ Quiet
        /\ UNCHANGED <<redisVars, clients, sessChannels, sockVars, nextNotif, grantLog>>
        /\ UNCHANGED <<faultAt, timers, resp>>

\* The test of getAccessibleChannels on the hash of one key: the id is in
\* allowedClientIds or matches an entry of allowedPatterns.
Accessible(hash, clientId) ==
    \/ Includes(AllowedClientIds(hash), clientId)
    \/ \E i \in 1..Len(AllowedPatterns(hash)) :
           RegExpTest(AllowedPatterns(hash)[i], clientId)

\* getAccessibleChannels: HGETALL of the next key and its test
DeleteClientScan(t, c) ==
    LET x == tasks[t].cid
        found == IF Accessible(rules[c], x) THEN tasks[t].seen \cup {c}
                                            ELSE tasks[t].seen
        rest == tasks[t].subs \ {c}
    IN  /\ tasks[t].kind = "delclient" /\ tasks[t].pc = "scan"
        /\ c \in tasks[t].subs
        /\ tasks' = [tasks EXCEPT ![t].subs = rest, ![t].seen = found,
                        ![t].todo = IF rest = {} THEN found ELSE {},
                        ![t].pc = IF rest = {} THEN AfterScan(found) ELSE "scan"]
        /\ Quiet
        /\ UNCHANGED <<redisVars, clients, sessChannels, sockVars, nextNotif, grantLog>>
        /\ UNCHANGED <<faultAt, timers, resp>>

\* revokeChannelAccess for the next accessible channel: HGETALL, filter
DeleteClientRevokeRead(t, c) ==
    /\ tasks[t].kind = "delclient" /\ tasks[t].pc = "revread"
    /\ c \in tasks[t].todo
    /\ tasks' = [tasks EXCEPT ![t].pc = "revhset", ![t].ch = c,
                   ![t].snap = [NoRules EXCEPT
                       !.fields = {"allowedClientIds"},
                       !.allowedClientIds =
                           FilterOut(AllowedClientIds(rules[c]), tasks[t].cid)]]
    /\ Quiet
    /\ UNCHANGED <<redisVars, clients, sessChannels, sockVars, nextNotif, grantLog>>
    /\ UNCHANGED <<faultAt, timers, resp>>

\* revokeChannelAccess: HSET channel:<channel>:rules {allowedClientIds}
DeleteClientRevokeHset(t) ==
    LET rest == tasks[t].todo \ {tasks[t].ch}
    IN  /\ tasks[t].kind = "delclient" /\ tasks[t].pc = "revhset"
        /\ rules' = [rules EXCEPT ![tasks[t].ch] = HSet(@, tasks[t].snap)]
        /\ tasks' = [tasks EXCEPT ![t].todo = rest, ![t].snap = NoRules,
                        ![t].ch = NoChannel,
                        ![t].pc = IF rest = {} THEN "smembers" ELSE "revread"]
        /\ Quiet
        /\ UNCHANGED <<clientRec, chanSubs, clientSubs, history, clients, sessChannels,
                       sockVars, nextNotif, grantLog>>
        /\ UNCHANGED <<faultAt, timers, resp>>

\* getClientSubscriptions: SMEMBERS client-subscriptions:<client>
DeleteClientSubscriptions(t) ==
    LET subscribed == clientSubs[tasks[t].cid]
    IN  /\ tasks[t].kind = "delclient" /\ tasks[t].pc = "smembers"
        /\ tasks' = [tasks EXCEPT ![t].after = subscribed, ![t].todo = subscribed,
                        ![t].pc = IF subscribed = {} THEN "delrecord" ELSE "unsub1"]
        /\ Quiet
        /\ UNCHANGED <<redisVars, clients, sessChannels, sockVars, nextNotif, grantLog>>
        /\ UNCHANGED <<faultAt, timers, resp>>

\* unsubscribe of the next subscribed channel: SREM client-subscriptions:<client>
DeleteClientSrem1(t, c) ==
    /\ tasks[t].kind = "delclient" /\ tasks[t].pc = "unsub1"
    /\ c \in tasks[t].todo
    /\ clientSubs' = [clientSubs EXCEPT ![tasks[t].cid] = @ \ {c}]
    /\ tasks' = [tasks EXCEPT ![t].pc = "unsub2", ![t].ch = c]
    /\ Quiet
    /\ UNCHANGED <<clientRec, rules, chanSubs, history, clients, sessChannels,
                   sockVars, nextNotif, grantLog>>
    /\ UNCHANGED <<faultAt, timers, resp>>

\* unsubscribe: SREM subscription:<channel>
DeleteClientSrem2(t) ==
    LET rest == tasks[t].todo \ {tasks[t].ch}
    IN  /\ tasks[t].kind = "delclient" /\ tasks[t].pc = "unsub2"
        /\ chanSubs' = [chanSubs EXCEPT ![tasks[t].ch] = @ \ {tasks[t].cid}]
        /\ tasks' = [tasks EXCEPT ![t].todo = rest, ![t].ch = NoChannel,
                        ![t].pc = IF rest = {} THEN "delrecord" ELSE "unsub1"]
        /\ Quiet
        /\ UNCHANGED <<clientRec, rules, clientSubs, history, clients, sessChannels,
                       sockVars, nextNotif, grantLog>>
        /\ UNCHANGED <<faultAt, timers, resp>>

\* deleteClient: the identity record is removed.
DeleteClient(clientId) == [clientRec EXCEPT ![clientId] = 0]

\* The route after deleteClient: the answer carries deletedSubscriptions and
\* deletedChannels.
DeleteClientRecord(t) ==
    /\ tasks[t].kind = "delclient" /\ tasks[t].pc = "delrecord"
    /\ clientRec' = DeleteClient(tasks[t].cid)
    /\ resp' = [status |-> 200,
                body |-> <<Cardinality(tasks[t].after), Cardinality(tasks[t].seen)>>]
    /\ tasks' = Finish(t)
    /\ Quiet
    /\ UNCHANGED <<rules, chanSubs, clientSubs, history, clients, sessChannels,
                   sockVars, nextNotif, grantLog>>
    /\ UNCHANGED <<faultAt, timers>>

(***************************************************************************)
(* POST /api/notifications  (publish) and broadcastNotification            *)
(***************************************************************************)
\* Faulty variant: the route broadcasts without storing the notification
\* first.
HttpPublishBroadcastFirst(c) ==
    /\ sent' = {}
    /\ IF ~ValidateChannel(c)
       THEN /\ UNCHANGED <<tasks, nextNotif>>
       ELSE /\ FreeTasks # {}
            /\ nextNotif < MaxNotifs
            /\ nextNotif' = nextNotif + 1
            /\ tasks' = [tasks EXCEPT ![NewTask] =
                   [Idle EXCEPT !.kind = "publish", !.pc = "smembers", !.ch = c,
                                !.notif = nextNotif + 1,
                                !.after = {x \in ClientIds : grantLog[<<x, c>>] = "revoked"}]]
    /\ UNCHANGED <<redisVars, clients, sessChannels, sockVars, grantLog>>
    /\ UNCHANGED <<faultAt, timers, resp>>

HttpPublish(c) ==
    /\ sent' = {}
    /\ IF ~ValidateChannel(c)
       THEN /\ UNCHANGED <<tasks, nextNotif>>
       ELSE /\ FreeTasks # {}
            /\ nextNotif < MaxNotifs
            /\ nextNotif' = nextNotif + 1
            /\ tasks' = [tasks EXCEPT ![NewTask] =
                   [Idle EXCEPT !.kind = "publish", !.pc = "lpush", !.ch = c,
                                !.notif = nextNotif + 1,
                                !.after = {x \in ClientIds : grantLog[<<x, c>>] = "revoked"}]]
    /\ UNCHANGED <<redisVars, clients, sessChannels, sockVars, grantLog>>
    /\ UNCHANGED <<faultAt, timers, resp>>

\* storeNotification: LPUSH notification:<channel>
StoreNotificationLpush(t) ==
    /\ tasks[t].kind = "publish" /\ tasks[t].pc = "lpush"
    /\ history' = [history EXCEPT ![tasks[t].ch] = <<tasks[t].notif>> \o @]
    /\ tasks' = [tasks EXCEPT ![t].pc = "ltrim"]
    /\ Quiet
    /\ UNCHANGED <<clientRec, rules, chanSubs, clientSubs, clients, sessChannels,
                   sockVars, nextNotif, grantLog>>
    /\ UNCHANGED <<faultAt, timers, resp>>

\* Faulty variant: the trim keeps the tail of the list and drops the newest
\* entry.
LTrimOldest(list) ==
    IF Len(list) > HISTORY_LAST + 1 THEN SubSeq(list, Len(list) - HISTORY_LAST, Len(list))
                                    ELSE list

\* LTRIM key 0 999
LTrim(list) ==
    IF Len(list) > HISTORY_LAST + 1 THEN SubSeq(list, 1, HISTORY_LAST + 1) ELSE list

StoreNotificationLtrim(t) ==
    /\ tasks[t].kind = "publish" /\ tasks[t].pc = "ltrim"
    /\ history' = [history EXCEPT ![tasks[t].ch] = LTrim(@)]
    /\ tasks' = [tasks EXCEPT ![t].pc = "smembers"]
    /\ Quiet
    /\ UNCHANGED <<clientRec, rules, chanSubs, clientSubs, clients, sessChannels,
                   sockVars, nextNotif, grantLog>>
    /\ UNCHANGED <<faultAt, timers, resp>>

(***************************************************************************)
(* GET /api/notifications/:channel                                         *)
(***************************************************************************)
\* const { limit = 10 } = req.query
DEFAULT_LIMIT == 10

\* The values of ?limit= a request can carry: none, or an integer.
QueryLimits == {<<>>, <<-1>>, <<0>>, <<1>>, <<HISTORY_LAST + 2>>}

\* const { limit = 10 } = req.query; Number(limit)
QueryLimit(q) == IF q = <<>> THEN DEFAULT_LIMIT ELSE q[1]

\* A Redis list index: a negative index counts from the tail.
ListIndex(list, i) == IF i < 0 THEN Len(list) + i ELSE i

\* LRANGE key start stop (0-based, both ends included, out-of-range clamped)
LRange(list, start, stop) ==
    LET from == IF ListIndex(list, start) < 0 THEN 0 ELSE ListIndex(list, start)
        to   == IF ListIndex(list, stop) >= Len(list) THEN Len(list) - 1
                                                      ELSE ListIndex(list, stop)
    IN  IF from > to THEN <<>> ELSE SubSeq(list, from + 1, to + 1)

\* getNotifications: LRANGE notification:<channel> 0 limit-1
GetNotifications(channel, limit) == LRange(history[channel], 0, limit - 1)

\* The route up to the await of getNotifications: validateChannel (EXISTS).
HttpGetNotifications(c, q) ==
    /\ Quiet
    /\ IF ~ValidateChannel(c)
       THEN /\ resp' = [status |-> 404, body |-> <<>>]
            /\ UNCHANGED tasks
       ELSE /\ FreeTasks # {}
            /\ tasks' = [tasks EXCEPT ![NewTask] =
                   [Idle EXCEPT !.kind = "history", !.pc = "lrange", !.ch = c,
                                !.limit = QueryLimit(q)]]
            /\ UNCHANGED resp
    /\ UNCHANGED <<redisVars, clients, sessChannels, sockVars, nextNotif, grantLog>>
    /\ UNCHANGED <<faultAt, timers>>

\* The route after getNotifications: res.json(notifications)
GetNotificationsLrange(t) ==
    /\ tasks[t].kind = "history" /\ tasks[t].pc = "lrange"
    /\ resp' = [status |-> 200, body |-> GetNotifications(tasks[t].ch, tasks[t].limit)]
    /\ tasks' = Finish(t)
    /\ Quiet
    /\ UNCHANGED <<redisVars, clients, sessChannels, sockVars, nextNotif, grantLog>>
    /\ UNCHANGED <<faultAt, timers>>

\* A publish request sent after the previous publish was answered.
SequentialPublish(c) ==
    /\ \A t \in TaskIds : tasks[t].kind # "publish"
    /\ HttpPublish(c)

\* The loop of broadcastNotification goes on with the subscribers left in
\* `todo`, or the request is answered with the notification.
BroadcastNext(loop, t, todo) ==
    IF todo = {}
    THEN tasks' = Finish(t)
    ELSE tasks' = [loop EXCEPT ![t].pc = "loop", ![t].todo = todo,
                               ![t].cid = NoClient]

\* Faulty variant: the broadcast iterates over every registered session
\* instead of the subscribers of the channel.
BroadcastRegistered(t) ==
    /\ tasks[t].kind = "publish" /\ tasks[t].pc = "smembers"
    /\ LET registered == {x \in ClientIds : clients[x] # NoSocket}
       IN  BroadcastNext([tasks EXCEPT ![t].subs = registered], t, registered)
    /\ sent' = {}
    /\ UNCHANGED <<redisVars, clients, sessChannels, sockVars,
                   nextNotif, grantLog, faultAt, timers, resp>>

\* getChannelSubscribers: SMEMBERS subscription:<channel>
BroadcastSubscribers(t) ==
    /\ tasks[t].kind = "publish" /\ tasks[t].pc = "smembers"
    /\ BroadcastNext([tasks EXCEPT ![t].subs = chanSubs[tasks[t].ch]], t,
                     chanSubs[tasks[t].ch])
    /\ sent' = {}
    /\ UNCHANGED <<redisVars, clients, sessChannels, sockVars,
                   nextNotif, grantLog>>
    /\ UNCHANGED <<faultAt, timers, resp>>

\* Faulty variant: the frame goes to every open socket that connected with
\* the client id, not only to the registered session.
AllSocketsOf(x) == {s \in Sockets : sockOwner[s] = x /\ sockState[s] = "open"}

\* The sockets a notification for subscriber x is written to.
BroadcastTargets(x) == OpenSessionOf(x)

\* Faulty variant: the subscription is trusted as a cached permission and
\* the frame is sent without hasChannelAccess.
BroadcastCheckCached(t, x) ==
    /\ tasks[t].kind = "publish" /\ tasks[t].pc = "loop"
    /\ x \in tasks[t].todo
    /\ BroadcastNext(tasks, t, tasks[t].todo \ {x})
    /\ sent' = {<<s, Frame("notification", tasks[t].ch, tasks[t].notif)>> :
                   s \in OpenSessionOf(x)}
    /\ UNCHANGED <<redisVars, clients, sessChannels, sockVars, nextNotif,
                   grantLog, faultAt, timers, resp>>

\* One iteration: hasChannelAccess (HGETALL) for the next subscriber, then
\* either the eviction is started or the frame is sent to the live session.
BroadcastCheck(t, x) ==
    LET c == tasks[t].ch
        n == tasks[t].notif
    IN  /\ tasks[t].kind = "publish" /\ tasks[t].pc = "loop"
        /\ x \in tasks[t].todo
        /\ IF ~HasChannelAccess(rules[c], x)
           THEN /\ tasks' = [tasks EXCEPT ![t].pc = "srem1", ![t].cid = x,
                                          ![t].todo = @ \ {x}]
                /\ sent' = {}
           ELSE /\ BroadcastNext(tasks, t, tasks[t].todo \ {x})
                /\ sent' = {<<s, Frame("notification", c, n)>> : s \in BroadcastTargets(x)}
        /\ UNCHANGED <<redisVars, clients, sessChannels, sockVars, nextNotif,
                       grantLog, faultAt, timers, resp>>

\* hasChannelAccess rejects (persistence error): the catch around the whole
\* loop logs it, and the request is answered with the notification.
BroadcastFault(t, x) ==
    /\ tasks[t].kind = "publish" /\ tasks[t].pc = "loop"
    /\ x \in tasks[t].todo
    /\ tasks' = Finish(t)
    /\ sent' = {}
    /\ UNCHANGED <<redisVars, clients, sessChannels, sockVars,
                   nextNotif, grantLog>>
    /\ faultAt' = [faultAt EXCEPT ![tasks[t].notif] = x]
    /\ UNCHANGED <<timers, resp>>

(***************************************************************************)
(* SubscriptionService: the two commands of subscribe and of unsubscribe   *)
(***************************************************************************)
\* SADD client-subscriptions:<client> channel
SubscribeClientSide(x, c) == [clientSubs EXCEPT ![x] = @ \cup {c}]
\* SADD subscription:<channel> client
SubscribeChannelSide(x, c) == [chanSubs EXCEPT ![c] = @ \cup {x}]
\* SREM client-subscriptions:<client> channel
UnsubscribeClientSide(x, c) == [clientSubs EXCEPT ![x] = @ \ {c}]
\* SREM subscription:<channel> client
UnsubscribeChannelSide(x, c) == [chanSubs EXCEPT ![c] = @ \ {x}]

\* First command of subscribe, for whichever handler called it.
SubscribeFirst(t) ==
    /\ tasks[t].pc = "sadd1"
    /\ clientSubs' = SubscribeClientSide(tasks[t].cid, tasks[t].ch)
    /\ tasks' = [tasks EXCEPT ![t].pc = "sadd2"]
    /\ Quiet
    /\ UNCHANGED <<clientRec, rules, chanSubs, history, clients, sessChannels,
                   sockVars, nextNotif, grantLog>>
    /\ UNCHANGED <<faultAt, timers, resp>>

\* First command of unsubscribe, for whichever handler called it.
UnsubscribeFirst(t) ==
    /\ tasks[t].pc = "srem1"
    /\ clientSubs' = UnsubscribeClientSide(tasks[t].cid, tasks[t].ch)
    /\ tasks' = [tasks EXCEPT ![t].pc = "srem2"]
    /\ Quiet
    /\ UNCHANGED <<clientRec, rules, chanSubs, history, clients, sessChannels,
                   sockVars, nextNotif, grantLog>>
    /\ UNCHANGED <<faultAt, timers, resp>>

\* Second command of subscribe; the HTTP handlers (subscribe, grant) answer.
HttpSubscribed(t) ==
    /\ tasks[t].kind \in {"httpsub", "grant"} /\ tasks[t].pc = "sadd2"
    /\ chanSubs' = SubscribeChannelSide(tasks[t].cid, tasks[t].ch)
    /\ tasks' = Finish(t)
    /\ sent' = {}
    /\ grantLog' = IF tasks[t].kind = "grant"
                   THEN [grantLog EXCEPT ![<<tasks[t].cid, tasks[t].ch>>] = "granted"]
                   ELSE grantLog
    /\ UNCHANGED <<clientRec, rules, clientSubs, history, clients, sessChannels,
                   sockVars, nextNotif>>
    /\ UNCHANGED <<faultAt, timers, resp>>

\* Second command of unsubscribe; the HTTP handler answers.
HttpUnsubscribed(t) ==
    /\ tasks[t].kind = "httpunsub" /\ tasks[t].pc = "srem2"
    /\ chanSubs' = UnsubscribeChannelSide(tasks[t].cid, tasks[t].ch)
    /\ tasks' = Finish(t)
    /\ sent' = {}
    /\ UNCHANGED <<clientRec, rules, clientSubs, history, clients, sessChannels,
                   sockVars, nextNotif, grantLog>>
    /\ UNCHANGED <<faultAt, timers, resp>>

\* Second command of the eviction; the broadcast loop continues.
BroadcastEvicted(t) ==
    /\ tasks[t].kind = "publish" /\ tasks[t].pc = "srem2"
    /\ chanSubs' = UnsubscribeChannelSide(tasks[t].cid, tasks[t].ch)
    /\ BroadcastNext(tasks, t, tasks[t].todo)
    /\ sent' = {}
    /\ UNCHANGED <<clientRec, rules, clientSubs, history, clients, sessChannels,
                   sockVars, nextNotif, grantLog>>
    /\ UNCHANGED <<faultAt, timers, resp>>

(***************************************************************************)
(* WebSocketManager: connections                                           *)
(***************************************************************************)
\* wss.on("connection") with ?clientId=x: handleConnection awaits the
\* validation of the id.
WsConnect(x) ==
    /\ FreeSockets # {} /\ FreeTasks # {}
    /\ sockState' = [sockState EXCEPT ![NewSocket] = "open"]
    /\ sockOwner' = [sockOwner EXCEPT ![NewSocket] = x]
    /\ tasks' = [tasks EXCEPT ![NewTask] =
           [Idle EXCEPT !.kind = "connect", !.pc = "validate", !.cid = x,
                        !.sock = NewSocket]]
    /\ Quiet
    /\ UNCHANGED <<redisVars, clients, sessChannels, sockHandlers,
                   nextNotif, grantLog>>
    /\ UNCHANGED <<faultAt, timers, resp>>

\* wss.on("connection") for a URI without clientId: the socket is closed at
\* once and handleConnection is not called.
WsConnectNoId ==
    /\ FreeSockets # {}
    /\ sockState' = [sockState EXCEPT ![NewSocket] = "closing"]
    /\ sent' = {<<NewSocket, CloseFrame(CLOSE_MISSING_ID, "Client ID is required")>>}
    /\ UNCHANGED <<redisVars, memVars, sockOwner, sockHandlers, nextNotif, grantLog>>
    /\ UNCHANGED <<faultAt, timers, resp>>

\* validateClientId rejects (persistence error): the catch of handleConnection
\* closes the socket.
HandleConnectionFault(t) ==
    /\ tasks[t].kind = "connect" /\ tasks[t].pc = "validate"
    /\ tasks' = Finish(t)
    /\ sockState' = Closing(tasks[t].sock)
    /\ sent' = SendTo(tasks[t].sock, CloseFrame(CLOSE_CONNECTION_ERROR, "Connection error"))
    /\ UNCHANGED <<redisVars, clients, sessChannels, sockOwner, sockHandlers,
                   nextNotif, grantLog>>
    /\ UNCHANGED <<faultAt, timers, resp>>

\* Faulty variant: a new session is replayed the stored notifications of the
\* channels its client is subscribed to.
HandleConnectionReplay(t) ==
    LET s == tasks[t].sock
        x == tasks[t].cid
    IN  /\ tasks[t].kind = "connect" /\ tasks[t].pc = "validate"
        /\ ValidateClientId(x)
        /\ tasks' = Finish(t)
        /\ clients' = [clients EXCEPT ![x] = s]
        /\ sessChannels' = [sessChannels EXCEPT ![s] = {}]
        /\ sockHandlers' = [sockHandlers EXCEPT ![s] = (sockState[s] # "closed")]
        /\ sent' = SendTo(s, Frame("connection", NoChannel, NoNotif)) \cup
                   {<<s, Frame("notification", c, history[c][i])>> :
                       <<c, i>> \in {q \in clientSubs[x] \X (1..MaxNotifs) :
                                        q[2] <= Len(history[q[1]])}}
        /\ timers' = [timers EXCEPT ![s] = x]
        /\ clientRec' = RefreshClientId(x)
        /\ UNCHANGED <<rules, chanSubs, clientSubs, history>>
        /\ UNCHANGED <<sockState, sockOwner, nextNotif, grantLog, faultAt, resp>>

\* Faulty variant: an invalid id is closed with the code of the catch, so the
\* peer cannot tell it from an internal error by the code.
HandleConnectionGenericClose(t) ==
    LET s == tasks[t].sock
        x == tasks[t].cid
    IN  /\ tasks[t].kind = "connect" /\ tasks[t].pc = "validate"
        /\ tasks' = Finish(t)
        /\ IF ~ValidateClientId(x)
           THEN /\ sockState' = Closing(s)
                /\ sent' = SendTo(s, CloseFrame(CLOSE_CONNECTION_ERROR, "Invalid client ID"))
                /\ UNCHANGED <<clients, sessChannels, sockHandlers, timers>>
           ELSE /\ clients' = [clients EXCEPT ![x] = s]
                /\ sessChannels' = [sessChannels EXCEPT ![s] = {}]
                /\ sockHandlers' = [sockHandlers EXCEPT ![s] = (sockState[s] # "closed")]
                /\ sent' = SendTo(s, Frame("connection", NoChannel, NoNotif))
                /\ timers' = [timers EXCEPT ![s] = x]
                /\ UNCHANGED sockState
        /\ clientRec' = RefreshClientId(x)
        /\ UNCHANGED <<rules, chanSubs, clientSubs, history>>
        /\ UNCHANGED <<sockOwner, nextNotif, grantLog>>
        /\ UNCHANGED <<faultAt, resp>>

\* handleConnection after validateClientId
HandleConnection(t) ==
    LET s == tasks[t].sock
        x == tasks[t].cid
    IN  /\ tasks[t].kind = "connect" /\ tasks[t].pc = "validate"
        /\ tasks' = Finish(t)
        /\ IF ~ValidateClientId(x)
           THEN \* ws.close(4001, "Invalid client ID")
                /\ sockState' = Closing(s)
                /\ sent' = SendTo(s, CloseFrame(CLOSE_INVALID_ID, "Invalid client ID"))
                /\ UNCHANGED <<clients, sessChannels, sockHandlers, timers>>
           ELSE /\ clients' = [clients EXCEPT ![x] = s]
                /\ sessChannels' = [sessChannels EXCEPT ![s] = {}]
                \* handlers attached to a socket that has closed never run
                /\ sockHandlers' = [sockHandlers EXCEPT ![s] = (sockState[s] # "closed")]
                /\ sent' = SendTo(s, Frame("connection", NoChannel, NoNotif))
                \* setupValidationInterval
                /\ timers' = [timers EXCEPT ![s] = x]
                /\ UNCHANGED sockState
        /\ clientRec' = RefreshClientId(x)
        /\ UNCHANGED <<rules, chanSubs, clientSubs, history>>
        /\ UNCHANGED <<sockOwner, nextNotif, grantLog>>
        /\ UNCHANGED <<faultAt, resp>>

\* The channels of a session that the disconnect loop has not visited yet.
DisconnectRest(s, seen) == sessChannels[s] \ seen

\* The transport of socket s closes (by the peer, or completing a close the
\* server started); the "close" handler, if attached, runs
\* handleClientDisconnect(clientId) up to its first await.
WsClose(s) ==
    LET x == sockOwner[s]
        session == clients[x]
    IN  /\ sockState[s] \in {"open", "closing"}
        /\ sockState' = [sockState EXCEPT ![s] = "closed"]
        /\ Quiet
        /\ IF ~sockHandlers[s] \/ session = NoSocket
           THEN UNCHANGED <<clients, tasks>>
           ELSE IF DisconnectRest(session, {}) = {}
           THEN /\ clients' = [clients EXCEPT ![x] = NoSocket]
                /\ UNCHANGED tasks
           ELSE /\ FreeTasks # {}
                /\ \E c \in DisconnectRest(session, {}) :
                      tasks' = [tasks EXCEPT ![NewTask] =
                          [Idle EXCEPT !.kind = "disc", !.pc = "srem1", !.cid = x,
                                       !.sock = session, !.ch = c]]
                /\ UNCHANGED clients
        \* nothing reads the owner or the handlers of a closed socket
        /\ sockOwner' = [sockOwner EXCEPT ![s] = NoClient]
        /\ sockHandlers' = [sockHandlers EXCEPT ![s] = FALSE]
        /\ UNCHANGED <<redisVars, sessChannels, nextNotif, grantLog>>
        /\ UNCHANGED <<faultAt, timers, resp>>

\* Faulty variant: the registry entry is deleted after the first channel and
\* the other channels of the session stay in the index.
HandleClientDisconnectFirstOnly(t) ==
    LET x == tasks[t].cid
    IN  /\ tasks[t].kind = "disc" /\ tasks[t].pc = "srem2"
        /\ chanSubs' = UnsubscribeChannelSide(x, tasks[t].ch)
        /\ Quiet
        /\ clients' = [clients EXCEPT ![x] = NoSocket]
        /\ tasks' = Finish(t)
        /\ UNCHANGED <<clientRec, rules, clientSubs, history, sessChannels,
                       sockVars, nextNotif, grantLog>>
        /\ UNCHANGED <<faultAt, timers, resp>>

\* handleClientDisconnect after the second command of an unsubscribe: the
\* next channel of the session, or the registry entry is deleted.
HandleClientDisconnect(t) ==
    LET x == tasks[t].cid
        seen == tasks[t].seen \cup {tasks[t].ch}
        rest == DisconnectRest(tasks[t].sock, seen)
    IN  /\ tasks[t].kind = "disc" /\ tasks[t].pc = "srem2"
        /\ chanSubs' = UnsubscribeChannelSide(x, tasks[t].ch)
        /\ Quiet
        /\ IF rest = {}
           THEN /\ clients' = [clients EXCEPT ![x] = NoSocket]
                /\ tasks' = Finish(t)
           ELSE /\ \E c \in rest :
                      tasks' = [tasks EXCEPT ![t].pc = "srem1", ![t].ch = c,
                                             ![t].seen = seen]
                /\ UNCHANGED clients
        /\ UNCHANGED <<clientRec, rules, clientSubs, history, sessChannels,
                       sockVars, nextNotif, grantLog>>
        /\ UNCHANGED <<faultAt, timers, resp>>

\* The closing handshake that the server started with ws.close completes.
CloseCompletes(s) == sockState[s] = "closing" /\ WsClose(s)

\* One firing of the interval of setupValidationInterval for the session of
\* socket s: the registry test, validateClientId, and on failure ws.close,
\* handleClientDisconnect (not awaited) up to its first await, clearInterval.
ValidationTick(s) ==
    LET x == timers[s]
        session == clients[x]
    IN  /\ timers[s] # NoClient
        /\ IF session = NoSocket
           THEN \* clearInterval
                /\ timers' = [timers EXCEPT ![s] = NoClient]
                /\ Quiet
                /\ UNCHANGED <<clients, tasks, sockState>>
           ELSE IF ValidateClientId(x)
           THEN /\ Quiet
                /\ UNCHANGED <<timers, clients, tasks, sockState>>
           ELSE /\ sockState' = Closing(s)
                /\ sent' = SendTo(s, CloseFrame(CLOSE_INVALID_ID, "Client ID validation failed"))
                /\ timers' = [timers EXCEPT ![s] = NoClient]
                /\ IF DisconnectRest(session, {}) = {}
                   THEN /\ clients' = [clients EXCEPT ![x] = NoSocket]
                        /\ UNCHANGED tasks
                   ELSE /\ FreeTasks # {}
                        /\ \E c \in DisconnectRest(session, {}) :
                              tasks' = [tasks EXCEPT ![NewTask] =
                                  [Idle EXCEPT !.kind = "disc", !.pc = "srem1", !.cid = x,
                                               !.sock = session, !.ch = c]]
                        /\ UNCHANGED clients
        /\ clientRec' = IF session # NoSocket THEN RefreshClientId(x) ELSE clientRec
        /\ UNCHANGED <<rules, chanSubs, clientSubs, history>>
        /\ UNCHANGED <<sessChannels, sockOwner, sockHandlers, nextNotif, grantLog>>
        /\ UNCHANGED <<faultAt, resp>>

(***************************************************************************)
(* WebSocketManager: control frames                                        *)
(***************************************************************************)
\* getClientByWebSocket: the registered session whose socket is ws
GetClientByWebSocket(s) ==
    {x \in ClientIds : clients[x] = s}

\* handleMessage for {type: action, channel: c} (or the legacy shape
\* {type: "subscription", action, channel}) up to the await of hasChannelAccess:
\* JSON.parse, the session lookup and the validation of the identity.  A
\* frame that is not JSON ("malformed") throws in JSON.parse and is answered
\* from the catch.
HandleMessage(s, action, c) ==
    /\ sockState[s] = "open" /\ sockHandlers[s]
    /\ IF action = "malformed"
       THEN /\ sent' = SendTo(s, Frame("error", "Invalid message format", NoNotif))
            /\ UNCHANGED <<tasks, sockState>>
       ELSE IF GetClientByWebSocket(s) = {}
       THEN /\ Quiet
            /\ UNCHANGED <<tasks, sockState>>
       ELSE LET x == CHOOSE y \in GetClientByWebSocket(s) : TRUE
            IN  IF ~ValidateClientId(x)
                THEN \* ws.close(4001, "Invalid client ID")
                     /\ sockState' = Closing(s)
                     /\ sent' = SendTo(s, CloseFrame(CLOSE_INVALID_ID, "Invalid client ID"))
                     /\ UNCHANGED tasks
                ELSE /\ FreeTasks # {}
                     /\ tasks' = [tasks EXCEPT ![NewTask] =
                            [Idle EXCEPT !.kind = action, !.pc = "access", !.cid = x,
                                         !.sock = s, !.ch = c]]
                     /\ Quiet
                     /\ UNCHANGED sockState
    /\ clientRec' = IF action # "malformed" /\ GetClientByWebSocket(s) # {}
                    THEN RefreshClientId(CHOOSE y \in GetClientByWebSocket(s) : TRUE)
                    ELSE clientRec
    /\ UNCHANGED <<rules, chanSubs, clientSubs, history>>
    /\ UNCHANGED <<clients, sessChannels, sockOwner, sockHandlers, nextNotif, grantLog>>
    /\ UNCHANGED <<faultAt, timers, resp>>

\* Faulty variant: the denial does not return, and the handler goes on to
\* the requested action.
HandleSubscriptionFallThrough(t) ==
    /\ tasks[t].kind \in {"subscribe", "unsubscribe"} /\ tasks[t].pc = "access"
    /\ sent' = IF ~HasChannelAccess(rules[tasks[t].ch], tasks[t].cid)
               THEN SendTo(tasks[t].sock, Frame("error", tasks[t].ch, NoNotif))
               ELSE {}
    /\ tasks' = [tasks EXCEPT ![t].pc =
                    IF tasks[t].kind = "subscribe" THEN "sadd1" ELSE "srem1"]
    /\ UNCHANGED <<redisVars, clients, sessChannels, sockVars,
                   nextNotif, grantLog, faultAt, timers, resp>>

\* handleSubscription after hasChannelAccess (HGETALL)
HandleSubscription(t) ==
    /\ tasks[t].kind \in {"subscribe", "unsubscribe"} /\ tasks[t].pc = "access"
    /\ IF ~HasChannelAccess(rules[tasks[t].ch], tasks[t].cid)
       THEN /\ sent' = SendTo(tasks[t].sock, Frame("error", tasks[t].ch, NoNotif))
            /\ tasks' = Finish(t)
       ELSE /\ sent' = {}
            /\ tasks' = [tasks EXCEPT ![t].pc =
                            IF tasks[t].kind = "subscribe" THEN "sadd1" ELSE "srem1"]
    /\ UNCHANGED <<redisVars, clients, sessChannels, sockVars,
                   nextNotif, grantLog>>
    /\ UNCHANGED <<faultAt, timers, resp>>

\* Faulty variant: the index is updated and the acknowledgement sent, but the
\* session's local set is not.
SubscribeToChannelNoLocal(t) ==
    /\ tasks[t].kind = "subscribe" /\ tasks[t].pc = "sadd2"
    /\ chanSubs' = SubscribeChannelSide(tasks[t].cid, tasks[t].ch)
    /\ sent' = SendTo(tasks[t].sock, Frame("subscribed", tasks[t].ch, NoNotif))
    /\ tasks' = Finish(t)
    /\ UNCHANGED <<clientRec, rules, clientSubs, history, clients, sessChannels,
                   sockVars, nextNotif, grantLog, faultAt, timers, resp>>

\* subscribeToChannel after the second command of subscribe
SubscribeToChannel(t) ==
    /\ tasks[t].kind = "subscribe" /\ tasks[t].pc = "sadd2"
    /\ chanSubs' = SubscribeChannelSide(tasks[t].cid, tasks[t].ch)
    /\ sessChannels' = [sessChannels EXCEPT ![tasks[t].sock] = @ \cup {tasks[t].ch}]
    /\ sent' = SendTo(tasks[t].sock, Frame("subscribed", tasks[t].ch, NoNotif))
    /\ tasks' = Finish(t)
    /\ UNCHANGED <<clientRec, rules, clientSubs, history, clients, sockVars, nextNotif, grantLog>>
    /\ UNCHANGED <<faultAt, timers, resp>>

\* unsubscribeFromChannel after the second command of unsubscribe
UnsubscribeFromChannel(t) ==
    /\ tasks[t].kind = "unsubscribe" /\ tasks[t].pc = "srem2"
    /\ chanSubs' = UnsubscribeChannelSide(tasks[t].cid, tasks[t].ch)
    /\ sessChannels' = [sessChannels EXCEPT ![tasks[t].sock] = @ \ {tasks[t].ch}]
    /\ sent' = SendTo(tasks[t].sock, Frame("unsubscribed", tasks[t].ch, NoNotif))
    /\ tasks' = Finish(t)
    /\ UNCHANGED <<clientRec, rules, clientSubs, history, clients, sockVars, nextNotif, grantLog>>
    /\ UNCHANGED <<faultAt, timers, resp>>

(***************************************************************************)
(* Observation: the clients that have been subscribed, authorized and      *)
(* connected on an open socket ever since a publish request arrived.       *)
(***************************************************************************)
Eligible(c) ==
    {x \in ClientIds : /\ x \in chanSubs[c]
                       /\ HasChannelAccess(rules[c], x)
                       /\ OpenSessionOf(x) # {}}

\* Eligible(c) in the state the step leads to.
EligibleNext(c) ==
    {x \in ClientIds : /\ x \in chanSubs'[c]
                       /\ HasChannelAccess(rules'[c], x)
                       /\ clients'[x] # NoSocket
                       /\ sockState'[clients'[x]] = "open"}

PublishOf(n) == {t \in TaskIds : tasks[t].kind = "publish" /\ tasks[t].notif = n}

\* Notification frames of n that the step writes to sockets opened for x.
Received(x, n) ==
    {f \in sent' : /\ sockOwner[f[1]] = x
                   /\ f[2].type = "notification" /\ f[2].notif = n}

\* Handler t of the table T is a delete-channel or delete-client handler.
Deleting(T, t) == T[t].kind \in {"delete", "delclient"}

\* Another handler is in flight next to the delete handler t: on the channel
\* being deleted, or any handler next to the delete of a client.
Concurrent(T, t) ==
    \E u \in TaskIds \ {t} :
        /\ T[u].kind # "idle"
        /\ T[t].kind = "delclient" \/ T[u].ch = T[t].ch

Observe ==
    /\ notifCount' = [x \in ClientIds |-> [n \in NotifIds |->
                         notifCount[x][n] + Cardinality(Received(x, n))]]
    /\ elig' = [n \in NotifIds |->
        IF n = nextNotif' /\ nextNotif' # nextNotif
        THEN LET c == tasks'[CHOOSE t \in TaskIds : tasks'[t].notif = n].ch
             IN  Eligible(c) \cap EligibleNext(c)
        ELSE IF PublishOf(n) # {}
        THEN LET c == tasks[CHOOSE t \in PublishOf(n) : TRUE].ch
             IN  elig[n] \cap EligibleNext(c)
        ELSE elig[n]]
    /\ overlap' = {t \in TaskIds :
                      /\ Deleting(tasks', t)
                      /\ \/ t \in overlap /\ Deleting(tasks, t)
                         \/ Deleting(tasks, t) /\ Concurrent(tasks, t)
                         \/ Concurrent(tasks', t)}

(***************************************************************************)
(* Specification                                                           *)
(***************************************************************************)
\* The outside world hands the server a request or a socket event.
Arrive(A) == budget > 0 /\ budget' = budget - 1 /\ A /\ Observe

\* A suspended handler resumes: its Redis command runs and it continues.
Resume(A) == A /\ UNCHANGED budget /\ Observe

Next ==
    \/ \E x \in ClientIds : Arrive(HttpCreateClient(x))
    \/ \E x \in ClientIds : Arrive(ExpireClientId(x))
    \/ \E c \in Channels, r \in RuleInputs : Arrive(HttpCreateChannel(c, r))
    \/ \E c \in Channels, x \in ClientIds : Arrive(HttpGrant(c, x))
    \/ \E c \in Channels, x \in ClientIds : Arrive(HttpRevoke(c, x))
    \/ \E c \in Channels, x \in ClientIds : Arrive(HttpSubscribe(c, x))
    \/ \E c \in Channels, x \in ClientIds : Arrive(HttpUnsubscribe(c, x))
    \/ \E c \in Channels : Arrive(HttpPublish(c))
    \/ \E x \in ClientIds : Arrive(WsConnect(x))
    \/ \E s \in Sockets : Arrive(WsClose(s))
    \/ \E s \in Sockets, c \in Channels : Arrive(HandleMessage(s, "subscribe", c))
    \/ \E s \in Sockets, c \in Channels : Arrive(HandleMessage(s, "unsubscribe", c))
    \/ \E t \in TaskIds : Resume(CreateChannelHset(t))
    \/ \E t \in TaskIds : Resume(GrantRules(t))
    \/ \E t \in TaskIds : Resume(GrantHset(t))
    \/ \E t \in TaskIds : Resume(RevokeRules(t))
    \/ \E t \in TaskIds : Resume(RevokeChannelAccessRead(t))
    \/ \E t \in TaskIds : Resume(RevokeChannelAccessHset(t))
    \/ \E t \in TaskIds : Resume(SubscribeFirst(t))
    \/ \E t \in TaskIds : Resume(UnsubscribeFirst(t))
    \/ \E t \in TaskIds : Resume(HttpSubscribed(t))
    \/ \E t \in TaskIds : Resume(HttpUnsubscribed(t))
    \/ \E t \in TaskIds : Resume(StoreNotificationLpush(t))
    \/ \E t \in TaskIds : Resume(StoreNotificationLtrim(t))
    \/ \E t \in TaskIds : Resume(BroadcastSubscribers(t))
    \/ \E t \in TaskIds, x \in ClientIds : Resume(BroadcastCheck(t, x))
    \/ \E t \in TaskIds : Resume(BroadcastEvicted(t))
    \/ \E t \in TaskIds : Resume(HandleConnection(t))
    \/ \E t \in TaskIds : Resume(HandleClientDisconnect(t))
    \/ \E t \in TaskIds : Resume(HandleSubscription(t))
    \/ \E t \in TaskIds : Resume(SubscribeToChannel(t))
    \/ \E t \in TaskIds : Resume(UnsubscribeFromChannel(t))

Spec == Init /\ [][Next]_vars

(***************************************************************************)
(* The server started against a Redis that earlier requests have filled    *)
(* (nothing is flushed at start-up): both identities are registered and    *)
(* the channel "priv" was created with one of the rules of RuleInputs.     *)
(***************************************************************************)
InitStore ==
    /\ clientRec = Registered(ClientIds)
    /\ \E r \in RuleInputs :
          rules = [c \in Channels |-> IF c = "demo" THEN ChannelRules(DemoRules)
                                                    ELSE ChannelRules(r)]
    /\ \E subs \in {{}, ClientIds} :
          /\ chanSubs = [c \in Channels |-> subs]
          /\ clientSubs = [x \in ClientIds |-> IF x \in subs THEN Channels ELSE {}]
    /\ history = [c \in Channels |-> <<>>]
    /\ clients = [x \in ClientIds |-> NoSocket]
    /\ sessChannels = [s \in Sockets |-> {}]
    /\ tasks = [t \in TaskIds |-> Idle]
    /\ sockState = [s \in Sockets |-> "free"]
    /\ sockOwner = [s \in Sockets |-> NoClient]
    /\ sockHandlers = [s \in Sockets |-> FALSE]
    /\ timers = [s \in Sockets |-> NoClient]
    /\ resp = NoResp
    /\ notifCount = [x \in ClientIds |-> [n \in NotifIds |-> 0]]
    /\ faultAt = [n \in NotifIds |-> NoClient]
    /\ nextNotif = 0
    /\ sent = {}
    /\ grantLog = [p \in ClientIds \X Channels |-> "none"]
    /\ elig = [n \in NotifIds |-> {}]
    /\ overlap = {}

InitServing == InitStore /\ budget = MaxServing

\* Publishing to subscribers whose subscriptions, sessions and access change
\* while the broadcast runs, and whose access check can hit a persistence
\* error.
NextFanout ==
    \/ \E c \in Channels, x \in ClientIds : Arrive(HttpGrant(c, x))
    \/ \E c \in Channels, x \in ClientIds : Arrive(HttpRevoke(c, x))
    \/ \E c \in Channels, x \in ClientIds : Arrive(HttpSubscribe(c, x))
    \/ \E c \in Channels : Arrive(HttpPublish(c))
    \/ \E x \in ClientIds : Arrive(WsConnect(x))
    \/ \E s \in Sockets : Arrive(WsClose(s))
    \/ \E s \in Sockets, c \in Channels : Arrive(HandleMessage(s, "subscribe", c))
    \/ \E t \in TaskIds : Resume(GrantRules(t))
    \/ \E t \in TaskIds : Resume(GrantHset(t))
    \/ \E t \in TaskIds : Resume(RevokeRules(t))
    \/ \E t \in TaskIds : Resume(RevokeChannelAccessRead(t))
    \/ \E t \in TaskIds : Resume(RevokeChannelAccessHset(t))
    \/ \E t \in TaskIds : Resume(SubscribeFirst(t))
    \/ \E t \in TaskIds : Resume(UnsubscribeFirst(t))
    \/ \E t \in TaskIds : Resume(HttpSubscribed(t))
    \/ \E t \in TaskIds : Resume(StoreNotificationLpush(t))
    \/ \E t \in TaskIds : Resume(StoreNotificationLtrim(t))
    \/ \E t \in TaskIds : Resume(BroadcastSubscribers(t))
    \/ \E t \in TaskIds, x \in ClientIds : Resume(BroadcastCheck(t, x))
    \/ \E t \in TaskIds : Resume(BroadcastEvicted(t))
    \/ \E t \in TaskIds : Resume(HandleConnection(t))
    \/ \E t \in TaskIds : Resume(HandleClientDisconnect(t))
    \/ \E t \in TaskIds : Resume(HandleSubscription(t))
    \/ \E t \in TaskIds : Resume(SubscribeToChannel(t))
    \/ \E t \in TaskIds, x \in ClientIds : Resume(BroadcastFault(t, x))

SpecFanout == InitServing /\ [][NextFanout]_vars

InitAccess == InitStore /\ budget = MaxAccess

\* Grants and revokes on the channels, sessions connecting, publishes.
NextAccess ==
    \/ \E c \in Channels, x \in ClientIds : Arrive(HttpGrant(c, x))
    \/ \E c \in Channels, x \in ClientIds : Arrive(HttpRevoke(c, x))
    \/ \E c \in Channels : Arrive(HttpPublish(c))
    \/ \E x \in ClientIds : Arrive(WsConnect(x))
    \/ \E t \in TaskIds : Resume(GrantRules(t))
    \/ \E t \in TaskIds : Resume(GrantHset(t))
    \/ \E t \in TaskIds : Resume(RevokeRules(t))
    \/ \E t \in TaskIds : Resume(RevokeChannelAccessRead(t))
    \/ \E t \in TaskIds : Resume(RevokeChannelAccessHset(t))
    \/ \E t \in TaskIds : Resume(SubscribeFirst(t))
    \/ \E t \in TaskIds : Resume(UnsubscribeFirst(t))
    \/ \E t \in TaskIds : Resume(HttpSubscribed(t))
    \/ \E t \in TaskIds : Resume(StoreNotificationLpush(t))
    \/ \E t \in TaskIds : Resume(StoreNotificationLtrim(t))
    \/ \E t \in TaskIds : Resume(BroadcastSubscribers(t))
    \/ \E t \in TaskIds, x \in ClientIds : Resume(BroadcastCheck(t, x))
    \/ \E t \in TaskIds : Resume(BroadcastEvicted(t))
    \/ \E t \in TaskIds : Resume(HandleConnection(t))

SpecAccess == InitAccess /\ [][NextAccess]_vars

\* Registered clients, public channels, nobody subscribed or connected yet.
\* The rules records a start-up can find: none (first start), the demo rules
\* as created, the demo rules after a grant, or rules of a create request.
StoredRules(c) ==
    IF c = "demo"
    THEN {NoRules, ChannelRules(DemoRules),
          [ChannelRules(DemoRules) EXCEPT !.allowedClientIds = <<"c1">>]}
    ELSE {NoRules} \cup {ChannelRules(r) : r \in RuleInputs}

\* The server starts on a store of an earlier run; initializeDemoChannel is
\* under way.
InitCreate ==
    /\ clientRec = Registered(ClientIds)
    /\ rules \in {f \in [Channels -> UNION {StoredRules(c) : c \in Channels}] :
                      \A c \in Channels : f[c] \in StoredRules(c)}
    /\ chanSubs = [c \in Channels |-> {}]
    /\ clientSubs = [x \in ClientIds |-> {}]
    /\ history = [c \in Channels |-> <<>>]
    /\ clients = [x \in ClientIds |-> NoSocket]
    /\ sessChannels = [s \in Sockets |-> {}]
    /\ tasks = [t \in TaskIds |-> IF t = 1 THEN InitializeDemoChannel ELSE Idle]
    /\ sockState = [s \in Sockets |-> "free"]
    /\ sockOwner = [s \in Sockets |-> NoClient]
    /\ sockHandlers = [s \in Sockets |-> FALSE]
    /\ timers = [s \in Sockets |-> NoClient]
    /\ resp = NoResp
    /\ notifCount = [x \in ClientIds |-> [n \in NotifIds |-> 0]]
    /\ faultAt = [n \in NotifIds |-> NoClient]
    /\ nextNotif = 0
    /\ sent = {}
    /\ grantLog = [p \in ClientIds \X Channels |-> "none"]
    /\ elig = [n \in NotifIds |-> {}]
    /\ overlap = {}
    /\ budget = MaxCreate

\* Every way a channel's rules record is created: the route, the test
\* endpoint and the start-up.
NextCreate ==
    \/ \E c \in Channels, r \in RuleInputs : Arrive(HttpCreateChannel(c, r))
    \/ \E x \in ClientIds : Arrive(HttpTestPrivateChannel(x))
    \/ \E t \in TaskIds : Resume(CreateChannelHset(t))

SpecCreate == InitCreate /\ [][NextCreate]_vars

\* Channels with rules, one stored notification each, and every client or
\* no client subscribed to both.
InitLifecycle ==
    /\ clientRec = Registered(ClientIds)
    /\ \E r \in RuleInputs :
          rules = [c \in Channels |-> IF c = "demo" THEN ChannelRules(DemoRules)
                                                    ELSE ChannelRules(r)]
    /\ \E subs \in {{}, ClientIds} :
          /\ chanSubs = [c \in Channels |-> subs]
          /\ clientSubs = [x \in ClientIds |-> IF x \in subs THEN Channels ELSE {}]
    /\ history = [c \in Channels |-> <<0 - 1>>]
    /\ clients = [x \in ClientIds |-> NoSocket]
    /\ sessChannels = [s \in Sockets |-> {}]
    /\ tasks = [t \in TaskIds |-> Idle]
    /\ sockState = [s \in Sockets |-> "free"]
    /\ sockOwner = [s \in Sockets |-> NoClient]
    /\ sockHandlers = [s \in Sockets |-> FALSE]
    /\ timers = [s \in Sockets |-> NoClient]
    /\ resp = NoResp
    /\ notifCount = [x \in ClientIds |-> [n \in NotifIds |-> 0]]
    /\ faultAt = [n \in NotifIds |-> NoClient]
    /\ nextNotif = 0
    /\ sent = {}
    /\ grantLog = [p \in ClientIds \X Channels |-> "none"]
    /\ elig = [n \in NotifIds |-> {}]
    /\ overlap = {}
    /\ budget = MaxLifecycle

\* Channels deleted and created again while clients subscribe and
\* unsubscribe over HTTP.
NextLifecycle ==
    \/ \E c \in Channels : Arrive(HttpDeleteChannel(c))
    \/ \E c \in Channels, r \in RuleInputs : Arrive(HttpCreateChannel(c, r))
    \/ \E c \in Channels, x \in ClientIds : Arrive(HttpSubscribe(c, x))
    \/ \E c \in Channels, x \in ClientIds : Arrive(HttpUnsubscribe(c, x))
    \/ \E t \in TaskIds : Resume(DeleteChannelRules(t))
    \/ \E t \in TaskIds : Resume(DeleteChannelSubscribers(t))
    \/ \E t \in TaskIds, x \in ClientIds : Resume(DeleteChannelSrem(t, x))
    \/ \E t \in TaskIds : Resume(DeleteChannelSubscription(t))
    \/ \E t \in TaskIds : Resume(DeleteChannelNotifications(t))
    \/ \E t \in TaskIds : Resume(CreateChannelHset(t))
    \/ \E t \in TaskIds : Resume(SubscribeFirst(t))
    \/ \E t \in TaskIds : Resume(HttpSubscribed(t))
    \/ \E t \in TaskIds : Resume(HttpUnsubscribed(t))

SpecLifecycle == InitLifecycle /\ [][NextLifecycle]_vars

\* Identities are validated, over HTTP and by connecting, while time passes.
InitIdentity == InitStore /\ budget = MaxIdentity

NextIdentity ==
    \/ \E x \in ClientIds : Arrive(HttpValidateClient(x))
    \/ \E x \in ClientIds : Arrive(WsConnect(x))
    \/ Arrive(Second)
    \/ \E t \in TaskIds : Resume(HandleConnection(t))

SpecIdentity == InitIdentity /\ [][NextIdentity]_vars

\* Clients are deleted while clients subscribe, unsubscribe and are granted
\* access over HTTP.
InitRemoval == InitStore /\ budget = MaxRemoval

NextRemoval ==
    \/ \E x \in ClientIds : Arrive(HttpDeleteClient(x))
    \/ \E c \in Channels, x \in ClientIds : Arrive(HttpSubscribe(c, x))
    \/ \E c \in Channels, x \in ClientIds : Arrive(HttpUnsubscribe(c, x))
    \/ \E c \in Channels, x \in ClientIds : Arrive(HttpGrant(c, x))
    \/ \E t \in TaskIds : Resume(DeleteClientKeys(t))
    \/ \E t \in TaskIds, c \in Channels : Resume(DeleteClientScan(t, c))
    \/ \E t \in TaskIds, c \in Channels : Resume(DeleteClientRevokeRead(t, c))
    \/ \E t \in TaskIds : Resume(DeleteClientRevokeHset(t))
    \/ \E t \in TaskIds : Resume(DeleteClientSubscriptions(t))
    \/ \E t \in TaskIds, c \in Channels : Resume(DeleteClientSrem1(t, c))
    \/ \E t \in TaskIds : Resume(DeleteClientSrem2(t))
    \/ \E t \in TaskIds : Resume(DeleteClientRecord(t))
    \/ \E t \in TaskIds : Resume(SubscribeFirst(t))
    \/ \E t \in TaskIds : Resume(HttpSubscribed(t))
    \/ \E t \in TaskIds : Resume(HttpUnsubscribed(t))
    \/ \E t \in TaskIds : Resume(GrantRules(t))
    \/ \E t \in TaskIds : Resume(GrantHset(t))

SpecRemoval == InitRemoval /\ [][NextRemoval]_vars

\* A request that is sent when every earlier request has been answered.
Sequential(A) == (\A t \in TaskIds : tasks[t].kind = "idle") /\ A

\* One or both clients registered; demo as created at start-up, priv absent
\* or created with one of the rule sets; every client or no client subscribed
\* to the channels that exist.
InitApi ==
    /\ \E ids \in {{"c1"}, ClientIds} : clientRec = Registered(ids)
    /\ rules \in {f \in [Channels -> {NoRules, ChannelRules(DemoRules)} \cup
                                       {ChannelRules(r) : r \in RuleInputs}] :
                      /\ f["demo"] = ChannelRules(DemoRules)
                      /\ f["priv"] # ChannelRules(DemoRules)}
    /\ \E subs \in {{}, ClientIds} :
          /\ chanSubs = [c \in Channels |-> IF KeyExists(rules[c]) THEN subs ELSE {}]
          /\ clientSubs = [x \in ClientIds |->
                              IF x \in subs THEN {c \in Channels : KeyExists(rules[c])}
                                            ELSE {}]
    /\ history = [c \in Channels |-> <<>>]
    /\ clients = [x \in ClientIds |-> NoSocket]
    /\ sessChannels = [s \in Sockets |-> {}]
    /\ tasks = [t \in TaskIds |-> Idle]
    /\ sockState = [s \in Sockets |-> "free"]
    /\ sockOwner = [s \in Sockets |-> NoClient]
    /\ sockHandlers = [s \in Sockets |-> FALSE]
    /\ timers = [s \in Sockets |-> NoClient]
    /\ resp = NoResp
    /\ notifCount = [x \in ClientIds |-> [n \in NotifIds |-> 0]]
    /\ faultAt = [n \in NotifIds |-> NoClient]
    /\ nextNotif = 0
    /\ sent = {}
    /\ grantLog = [p \in ClientIds \X Channels |-> "none"]
    /\ elig = [n \in NotifIds |-> {}]
    /\ overlap = {}
    /\ budget = MaxApi

\* The HTTP routes, one request at a time.
NextApi ==
    \/ \E x \in ClientIds : Arrive(Sequential(HttpCreateClient(x)))
    \/ \E c \in Channels \cup {NoChannel}, r \in RuleInputs :
          Arrive(Sequential(HttpCreateChannel(c, r)))
    \/ \E c \in Channels, x \in ClientIds : Arrive(Sequential(HttpGrant(c, x)))
    \/ \E c \in Channels, x \in ClientIds : Arrive(Sequential(HttpRevoke(c, x)))
    \/ \E c \in Channels, x \in ClientIds \cup {NoClient} :
          Arrive(Sequential(HttpSubscribe(c, x)))
    \/ \E c \in Channels, x \in ClientIds \cup {NoClient} :
          Arrive(Sequential(HttpUnsubscribe(c, x)))
    \/ \E c \in Channels \cup {NoChannel} : Arrive(Sequential(HttpPublish(c)))
    \/ \E c \in Channels, q \in QueryLimits : Arrive(Sequential(HttpGetNotifications(c, q)))
    \/ \E c \in Channels : Arrive(Sequential(HttpDeleteChannel(c)))
    \/ \E x \in ClientIds : Arrive(Sequential(HttpDeleteClient(x)))
    \/ \E t \in TaskIds : Resume(CreateChannelHset(t))
    \/ \E t \in TaskIds : Resume(GrantRules(t))
    \/ \E t \in TaskIds : Resume(GrantHset(t))
    \/ \E t \in TaskIds : Resume(RevokeRules(t))
    \/ \E t \in TaskIds : Resume(RevokeChannelAccessRead(t))
    \/ \E t \in TaskIds : Resume(RevokeChannelAccessHset(t))
    \/ \E t \in TaskIds : Resume(SubscribeFirst(t))
    \/ \E t \in TaskIds : Resume(UnsubscribeFirst(t))
    \/ \E t \in TaskIds : Resume(HttpSubscribed(t))
    \/ \E t \in TaskIds : Resume(HttpUnsubscribed(t))
    \/ \E t \in TaskIds : Resume(StoreNotificationLpush(t))
    \/ \E t \in TaskIds : Resume(StoreNotificationLtrim(t))
    \/ \E t \in TaskIds : Resume(BroadcastSubscribers(t))
    \/ \E t \in TaskIds, x \in ClientIds : Resume(BroadcastCheck(t, x))
    \/ \E t \in TaskIds : Resume(BroadcastEvicted(t))
    \/ \E t \in TaskIds : Resume(GetNotificationsLrange(t))
    \/ \E t \in TaskIds : Resume(DeleteChannelRules(t))
    \/ \E t \in TaskIds : Resume(DeleteChannelSubscribers(t))
    \/ \E t \in TaskIds, x \in ClientIds : Resume(DeleteChannelSrem(t, x))
    \/ \E t \in TaskIds : Resume(DeleteChannelSubscription(t))
    \/ \E t \in TaskIds : Resume(DeleteChannelNotifications(t))
    \/ \E t \in TaskIds : Resume(DeleteClientKeys(t))
    \/ \E t \in TaskIds, c \in Channels : Resume(DeleteClientScan(t, c))
    \/ \E t \in TaskIds, c \in Channels : Resume(DeleteClientRevokeRead(t, c))
    \/ \E t \in TaskIds : Resume(DeleteClientRevokeHset(t))
    \/ \E t \in TaskIds : Resume(DeleteClientSubscriptions(t))
    \/ \E t \in TaskIds, c \in Channels : Resume(DeleteClientSrem1(t, c))
    \/ \E t \in TaskIds : Resume(DeleteClientSrem2(t))
    \/ \E t \in TaskIds : Resume(DeleteClientRecord(t))

SpecApi == InitApi /\ [][NextApi]_vars

\* The entries an earlier run left in a history: n entries, newest first
\* (the entries of this run are numbered from 1, older ones downwards from -1).
Stored(n) == [i \in 1..n |-> 0 - i]

\* What the histories hold at start-up: demo is full, priv is one short.
StoredAtStart(c) == IF c = "demo" THEN HISTORY_LAST + 1 ELSE HISTORY_LAST

InitHistory ==
    /\ clientRec = Registered(ClientIds)
    /\ rules = [c \in Channels |-> ChannelRules(DemoRules)]
    /\ chanSubs = [c \in Channels |-> {}]
    /\ clientSubs = [x \in ClientIds |-> {}]
    /\ history = [c \in Channels |-> Stored(StoredAtStart(c))]
    /\ clients = [x \in ClientIds |-> NoSocket]
    /\ sessChannels = [s \in Sockets |-> {}]
    /\ tasks = [t \in TaskIds |-> Idle]
    /\ sockState = [s \in Sockets |-> "free"]
    /\ sockOwner = [s \in Sockets |-> NoClient]
    /\ sockHandlers = [s \in Sockets |-> FALSE]
    /\ timers = [s \in Sockets |-> NoClient]
    /\ resp = NoResp
    /\ notifCount = [x \in ClientIds |-> [n \in NotifIds |-> 0]]
    /\ faultAt = [n \in NotifIds |-> NoClient]
    /\ nextNotif = 0
    /\ sent = {}
    /\ grantLog = [p \in ClientIds \X Channels |-> "none"]
    /\ elig = [n \in NotifIds |-> {}]
    /\ overlap = {}
    /\ budget = MaxHistory

\* Publishes one after the other on histories near their limit, and reads of
\* the history at any time.
NextHistory ==
    \/ \E c \in Channels : Arrive(SequentialPublish(c))
    \/ \E c \in Channels, q \in QueryLimits : Arrive(HttpGetNotifications(c, q))
    \/ \E t \in TaskIds : Resume(StoreNotificationLpush(t))
    \/ \E t \in TaskIds : Resume(StoreNotificationLtrim(t))
    \/ \E t \in TaskIds : Resume(BroadcastSubscribers(t))
    \/ \E t \in TaskIds : Resume(GetNotificationsLrange(t))

SpecHistory == InitHistory /\ [][NextHistory]_vars

InitSession ==
    /\ InitStore
    /\ \A c \in Channels : rules[c].isPublic = "1" /\ chanSubs[c] = {}
    /\ budget = MaxSession

\* Sessions connecting, subscribing, losing their identity and closing, with
\* the validation interval firing and publishes going on.  The interval and
\* the completion of a close the server started are not requests: they
\* happen on their own.
NextSession ==
    \/ \E x \in ClientIds : Arrive(ExpireClientId(x))
    \/ \E x \in ClientIds : Arrive(WsConnect(x))
    \/ Arrive(WsConnectNoId)
    \/ \E s \in Sockets : Arrive(WsClose(s))
    \/ \E s \in Sockets, c \in Channels : Arrive(HandleMessage(s, "subscribe", c))
    \/ \E s \in Sockets : Arrive(HandleMessage(s, "malformed", NoChannel))
    \/ \E c \in Channels : Arrive(HttpPublish(c))
    \/ \E s \in Sockets : Resume(ValidationTick(s))
    \/ \E s \in Sockets : Resume(CloseCompletes(s))
    \/ \E t \in TaskIds : Resume(HandleConnection(t))
    \/ \E t \in TaskIds : Resume(HandleConnectionFault(t))
    \/ \E t \in TaskIds : Resume(HandleSubscription(t))
    \/ \E t \in TaskIds : Resume(SubscribeFirst(t))
    \/ \E t \in TaskIds : Resume(SubscribeToChannel(t))
    \/ \E t \in TaskIds : Resume(UnsubscribeFirst(t))
    \/ \E t \in TaskIds : Resume(HandleClientDisconnect(t))
    \/ \E t \in TaskIds : Resume(StoreNotificationLpush(t))
    \/ \E t \in TaskIds : Resume(StoreNotificationLtrim(t))
    \/ \E t \in TaskIds : Resume(BroadcastSubscribers(t))
    \/ \E t \in TaskIds, x \in ClientIds : Resume(BroadcastCheck(t, x))

SpecSession == InitSession /\ [][NextSession]_vars

\* The interval fires every five minutes, every Redis command is answered and
\* every closing handshake completes.
SessionFairness ==
    /\ \A s \in Sockets : WF_vars(Resume(ValidationTick(s)))
    /\ \A s \in Sockets : WF_vars(Resume(CloseCompletes(s)))
    /\ \A t \in TaskIds :
          /\ WF_vars(Resume(HandleConnection(t)))
          /\ WF_vars(Resume(HandleSubscription(t)))
          /\ WF_vars(Resume(SubscribeFirst(t)))
          /\ WF_vars(Resume(SubscribeToChannel(t)))
          /\ WF_vars(Resume(UnsubscribeFirst(t)))
          /\ WF_vars(Resume(HandleClientDisconnect(t)))
          /\ WF_vars(Resume(StoreNotificationLpush(t)))
          /\ WF_vars(Resume(StoreNotificationLtrim(t)))
          /\ WF_vars(Resume(BroadcastSubscribers(t)))
          /\ WF_vars(\E x \in ClientIds : Resume(BroadcastCheck(t, x)))

SpecSessionFair == SpecSession /\ SessionFairness

(***************************************************************************)
(* Shutdown: the SIGTERM handler of index.ts.                              *)
(***************************************************************************)
\* SIGTERM reaches a server with no handler suspended: the handler quits the
\* Redis connection, closes the HTTP server and exits the process.  It
\* issues no other Redis command and calls nothing of the WebSocketManager;
\* the exit ends every socket, and the registry, the sessions and the
\* intervals go with the process.
Sigterm ==
    /\ \A t \in TaskIds : tasks[t].kind = "idle"
    /\ \E s \in Sockets : sockState[s] # "closed"
    /\ sockState' = [s \in Sockets |-> "closed"]
    /\ sockOwner' = [s \in Sockets |-> NoClient]
    /\ sockHandlers' = [s \in Sockets |-> FALSE]
    /\ clients' = [x \in ClientIds |-> NoSocket]
    /\ sessChannels' = [s \in Sockets |-> {}]
    /\ timers' = [s \in Sockets |-> NoClient]
    /\ Quiet
    /\ UNCHANGED <<redisVars, tasks, nextNotif, grantLog, faultAt, resp>>

\* Sessions connecting, subscribing and closing, and the server being shut
\* down.
NextShutdown ==
    \/ \E x \in ClientIds : Arrive(WsConnect(x))
    \/ \E s \in Sockets : Arrive(WsClose(s))
    \/ \E s \in Sockets, c \in Channels : Arrive(HandleMessage(s, "subscribe", c))
    \/ Arrive(Sigterm)
    \/ \E t \in TaskIds : Resume(HandleConnection(t))
    \/ \E t \in TaskIds : Resume(HandleSubscription(t))
    \/ \E t \in TaskIds : Resume(SubscribeFirst(t))
    \/ \E t \in TaskIds : Resume(SubscribeToChannel(t))
    \/ \E t \in TaskIds : Resume(UnsubscribeFirst(t))
    \/ \E t \in TaskIds : Resume(HandleClientDisconnect(t))

SpecShutdown == InitSession /\ [][NextShutdown]_vars

(***************************************************************************)
(* Properties                                                              *)
(***************************************************************************)
\* The notification frame of publish n on channel c.
Notification(c, n) == Frame("notification", c, n)

\* The step writes the notification of the publish handled by t to a socket
\* of the session registered for x.
Delivers(t, x) ==
    /\ tasks[t].kind = "publish"
    /\ clients[x] # NoSocket
    /\ <<clients[x], Notification(tasks[t].ch, tasks[t].notif)>> \in sent'

\* C1: for a private channel C and a subscribed, connected client X, once a
\* revoke of X on C has returned (after an earlier grant had returned, and
\* with no grant of X on C arriving since), no publish to C that starts
\* afterwards sends a notification frame to X's connection.
C1_RevocationImmediate ==
    [][\A t \in TaskIds, x \in ClientIds :
          ( /\ tasks[t].kind = "publish"
            /\ ~IsPublic(rules[tasks[t].ch])
            /\ x \in tasks[t].after
            /\ grantLog[<<x, tasks[t].ch>>] = "revoked" )
          => ~Delivers(t, x)]_vars

\* t is a publish whose broadcast loop is about to check a subscriber.
InLoop(t) == tasks[t].kind = "publish" /\ tasks[t].pc = "loop"

\* The step is one taken by the handler t.
StepOf(t) == tasks'[t] # tasks[t]

\* C2: during the broadcast of n to C a notification frame is written to the
\* session of X only in the iteration for X of that broadcast, and only if
\* hasChannelAccess(X, C), evaluated in that iteration, is true - whichever
\* way X entered the subscriber set.
C2_AccessCheckedAtDelivery ==
    [][\A f \in sent' : f[2].type = "notification" =>
          \E t \in TaskIds, x \in ClientIds :
             /\ InLoop(t)
             /\ tasks[t].notif = f[2].notif /\ tasks[t].ch = f[2].ch
             /\ x \in tasks[t].todo
             /\ clients[x] = f[1]
             /\ HasChannelAccess(rules[tasks[t].ch], x)]_vars

\* A broadcast to the private channel has just delivered to a subscriber
\* with access while another subscriber it read has none.
C2_Witness ==
    \E t \in TaskIds, f \in sent, y \in ClientIds :
       /\ tasks[t].kind = "publish" /\ tasks[t].ch = "priv"
       /\ ~IsPublic(rules["priv"])
       /\ f[2] = Notification("priv", tasks[t].notif)
       /\ y \in tasks[t].subs
       /\ ~HasChannelAccess(rules["priv"], y)

\* C3: when a publish to C has returned success, every client that was in
\* C's subscriber set, had access to C and had a registered open connection
\* throughout the publish has been sent its notification frame.
C3_DeliversToEligible ==
    \A n \in NotifIds :
       (n <= nextNotif /\ PublishOf(n) = {}) =>
          \A x \in elig[n] : notifCount[x][n] >= 1

\* C4: a publish to B writes notification frames only to sessions of clients
\* that were members of B's subscriber set when the broadcast read it (the
\* snapshot it iterates over, which never changes afterwards).
C4_DeliveryScoping ==
    [][/\ \A t \in TaskIds :
             (tasks[t].kind = "publish" /\ StepOf(t)) =>
                IF tasks[t].pc = "smembers"
                THEN IF chanSubs[tasks[t].ch] = {}
                     THEN tasks'[t] = Idle
                     ELSE tasks'[t].subs = chanSubs[tasks[t].ch]
                ELSE tasks'[t] = Idle \/ tasks'[t].subs = tasks[t].subs
       /\ \A f \in sent' : f[2].type = "notification" =>
             \E t \in TaskIds, x \in ClientIds :
                /\ tasks[t].kind = "publish"
                /\ tasks[t].notif = f[2].notif /\ tasks[t].ch = f[2].ch
                /\ x \in tasks[t].subs
                /\ clients[x] = f[1]]_vars

\* A broadcast is iterating over the subscribers it read while a connected
\* client that is subscribed to nothing has been sent nothing.
C4_Witness ==
    \E t \in TaskIds, x \in ClientIds :
       /\ InLoop(t)
       /\ tasks[t].subs # {} /\ x \notin tasks[t].subs
       /\ OpenSessionOf(x) # {}
       /\ clientSubs[x] = {} /\ \A c \in Channels : x \notin chanSubs[c]
       /\ notifCount[x][tasks[t].notif] = 0

\* C5: of one publish, at most one notification frame is ever written to
\* the connections of a client.
C5_AtMostOnce ==
    \A x \in ClientIds, n \in NotifIds : notifCount[x][n] <= 1

\* A client that has two open connections (it connected again) has been
\* sent a notification exactly once.
C5_Witness ==
    \E x \in ClientIds, n \in NotifIds :
       /\ notifCount[x][n] = 1
       /\ Cardinality({s \in Sockets : sockOwner[s] = x /\ sockState[s] = "open"}) = 2

\* C6: when the access check for one recipient hits a persistence error
\* during a broadcast, every other subscriber that stayed subscribed,
\* authorized and connected is still sent the notification by that broadcast.
C6_FailureIsolated ==
    \A n \in NotifIds :
       faultAt[n] # NoClient =>
          \A x \in elig[n] \ {faultAt[n]} : notifCount[x][n] >= 1

\* C7: a notification is written to a socket only by the iteration of its own
\* broadcast for a subscriber whose registered session is open at that
\* moment (nothing is sent later, at a connect or a subscribe); and an
\* iteration that finds access leaves the subscription sets as they are.
C7_NoReplay ==
    [][/\ \A f \in sent' : f[2].type = "notification" =>
             \E t \in TaskIds, x \in ClientIds :
                /\ InLoop(t)
                /\ tasks[t].notif = f[2].notif /\ tasks[t].ch = f[2].ch
                /\ x \in tasks[t].todo
                /\ OpenSessionOf(x) = {f[1]}
       /\ \A t \in TaskIds, x \in ClientIds :
             ( /\ InLoop(t) /\ StepOf(t)
               /\ x \in tasks[t].todo
               /\ tasks'[t] = Idle \/ x \notin tasks'[t].todo
               /\ HasChannelAccess(rules[tasks[t].ch], x) )
             => UNCHANGED <<chanSubs, clientSubs>>]_vars

\* A broadcast has passed a subscriber that has access and no registered
\* session: nothing was sent to it and its subscription is in place.
C7_Witness ==
    \E t \in TaskIds, x \in ClientIds :
       /\ InLoop(t)
       /\ x \in tasks[t].subs \ tasks[t].todo
       /\ clients[x] = NoSocket
       /\ HasChannelAccess(rules[tasks[t].ch], x)
       /\ x \in chanSubs[tasks[t].ch] /\ tasks[t].ch \in clientSubs[x]
       /\ notifCount[x][tasks[t].notif] = 0

\* C8: a broadcast iteration that finds hasChannelAccess(X, C) false removes
\* C from X's channel set and X from C's subscriber set; and when a publish
\* to C that started after grant(X, C) and revoke(X, C) had returned
\* completes with nothing else in flight, X is not in C's subscriber set and
\* C is not in X's channel set.
C8_EvictedAfterRevoke ==
    [][\A t \in TaskIds, x \in ClientIds :
          LET c == tasks[t].ch
          IN  (tasks[t].kind = "publish" /\ StepOf(t)) =>
                 /\ ( /\ tasks[t].pc = "loop" /\ faultAt' = faultAt
                      /\ x \in tasks[t].todo
                      /\ tasks'[t] = Idle \/ x \notin tasks'[t].todo
                      /\ ~HasChannelAccess(rules[c], x) )
                    => (tasks'[t].pc = "srem1" /\ tasks'[t].cid = x /\ sent' = {})
                 /\ (tasks[t].pc = "srem1" /\ tasks[t].cid = x)
                    => (c \notin clientSubs'[x] /\ tasks'[t].pc = "srem2")
                 /\ (tasks[t].pc = "srem2" /\ tasks[t].cid = x)
                    => x \notin chanSubs'[c]
                 /\ ( /\ tasks'[t] = Idle
                      /\ x \in tasks[t].after
                      /\ grantLog[<<x, c>>] = "revoked"
                      /\ \A u \in TaskIds \ {t} : tasks[u] = Idle )
                    => (x \notin chanSubs'[c] /\ c \notin clientSubs'[x])]_vars

\* C9: when a connected client's subscribe(C) finds hasChannelAccess false
\* (private channel without grant or pattern match, or no rules record),
\* the handler sends the error frame and ends: the subscription sets, the
\* session's local set, the registry and the socket are unchanged.
C9_DeniedSubscribe ==
    [][\A t \in TaskIds :
          ( /\ tasks[t].kind = "subscribe" /\ tasks[t].pc = "access"
            /\ StepOf(t)
            /\ ~HasChannelAccess(rules[tasks[t].ch], tasks[t].cid) )
          => /\ sockState[tasks[t].sock] = "open"
                => sent' = {<<tasks[t].sock, Frame("error", tasks[t].ch, NoNotif)>>}
             /\ tasks'[t] = Idle
             /\ UNCHANGED <<chanSubs, clientSubs, sessChannels, clients, sockState>>]_vars

\* The error frame for the private channel, which exists, has just been
\* written to the open socket of a registered session.
C9_Witness ==
    \E s \in Sockets :
       /\ <<s, Frame("error", "priv", NoNotif)>> \in sent
       /\ KeyExists(rules["priv"])
       /\ sockState[s] = "open"
       /\ sockOwner[s] \in ClientIds /\ clients[sockOwner[s]] = s

\* C10: a subscribe(C) that finds hasChannelAccess true adds C to X's channel
\* set, then X to C's subscriber set and C to the session's local set, and
\* sends the "subscribed" acknowledgement only in that last step; each step
\* leaves a set that already has the member unchanged.
C10_AllowedSubscribe ==
    [][/\ \A t \in TaskIds :
             LET x == tasks[t].cid
                 c == tasks[t].ch
                 s == tasks[t].sock
             IN  (tasks[t].kind = "subscribe" /\ StepOf(t)) =>
                    /\ (tasks[t].pc = "access" /\ HasChannelAccess(rules[c], x))
                       => (tasks'[t].pc = "sadd1" /\ sent' = {})
                    /\ tasks[t].pc = "sadd1"
                       => /\ c \in clientSubs'[x]
                          /\ c \in clientSubs[x] => clientSubs' = clientSubs
                          /\ tasks'[t].pc = "sadd2" /\ sent' = {}
                    /\ tasks[t].pc = "sadd2"
                       => /\ x \in chanSubs'[c]
                          /\ x \in chanSubs[c] => chanSubs' = chanSubs
                          /\ c \in sessChannels'[s]
                          /\ c \in sessChannels[s] => sessChannels' = sessChannels
                          /\ sockState[s] = "open"
                             => sent' = {<<s, Frame("subscribed", c, NoNotif)>>}
                          /\ tasks'[t] = Idle
       /\ \A f \in sent' : f[2].type = "subscribed" =>
             \E t \in TaskIds :
                /\ tasks[t].kind = "subscribe" /\ tasks[t].pc = "sadd2"
                /\ tasks[t].sock = f[1] /\ tasks[t].ch = f[2].ch]_vars

\* The acknowledgement has just been written to a session whose client is
\* in the channel's subscriber set, has the channel in its channel set and
\* in the session's local set.
C10_Witness ==
    \E s \in Sockets, c \in Channels :
       /\ <<s, Frame("subscribed", c, NoNotif)>> \in sent
       /\ sockOwner[s] \in ClientIds
       /\ clients[sockOwner[s]] = s
       /\ sockOwner[s] \in chanSubs[c]
       /\ c \in clientSubs[sockOwner[s]]
       /\ c \in sessChannels[s]

\* C11: a WebSocket unsubscribe(C) of a connected client is carried out
\* whether or not the client has access to C: the handler goes on to the two
\* removals (C from X's channel set, X from C's subscriber set), takes C out
\* of the session's local set and answers with the "unsubscribed"
\* acknowledgement, never with an error frame.
C11_UnsubscribeUnconditional ==
    [][\A t \in TaskIds :
          LET x == tasks[t].cid
              c == tasks[t].ch
              s == tasks[t].sock
          IN  (tasks[t].kind = "unsubscribe" /\ StepOf(t)) =>
                 /\ tasks[t].pc = "access"
                    => (tasks'[t].pc = "srem1" /\ sent' = {})
                 /\ tasks[t].pc = "srem1"
                    => (c \notin clientSubs'[x] /\ tasks'[t].pc = "srem2")
                 /\ tasks[t].pc = "srem2"
                    => /\ x \notin chanSubs'[c]
                       /\ c \notin sessChannels'[s]
                       /\ sockState[s] = "open"
                          => sent' = {<<s, Frame("unsubscribed", c, NoNotif)>>}]_vars

\* The close event of the socket of a registered session whose handlers are
\* attached.
SessionCloses(s) ==
    /\ sockState[s] \in {"open", "closing"} /\ sockState'[s] = "closed"
    /\ sockHandlers[s] /\ clients[sockOwner[s]] = s

\* C12 (steps): the close event of a registered session deletes its registry
\* entry at once when its local set is empty and otherwise starts the cascade
\* for it; the cascade removes its current channel from the client's set and
\* then the client from the channel's set, and when it ends every channel of
\* the local set has been visited, is in neither direction of the index and
\* the registry entry is deleted; a notification frame is never written to a
\* socket that the registry does not hold.
C12_CascadeSteps ==
    [][/\ \A s \in Sockets :
             SessionCloses(s) =>
                IF sessChannels[s] = {}
                THEN clients'[sockOwner[s]] = NoSocket
                ELSE \E t \in TaskIds :
                        /\ StepOf(t) /\ tasks'[t].kind = "disc" /\ tasks'[t].pc = "srem1"
                        /\ tasks'[t].sock = s /\ tasks'[t].cid = sockOwner[s]
                        /\ tasks'[t].ch \in sessChannels[s]
       /\ \A t \in TaskIds :
             (tasks[t].kind = "disc" /\ StepOf(t)) =>
                LET x == tasks[t].cid  c == tasks[t].ch
                IN  /\ tasks[t].pc = "srem1" => (c \notin clientSubs'[x] /\ tasks'[t].pc = "srem2")
                    /\ tasks[t].pc = "srem2" => x \notin chanSubs'[c]
                    /\ tasks'[t] = Idle =>
                          /\ clients'[x] = NoSocket
                          /\ sessChannels[tasks[t].sock] \subseteq tasks[t].seen \cup {c}
       /\ \A m \in sent' :
             m[2].type = "notification" => \E x \in ClientIds : clients[x] = m[1]
      ]_vars

\* C12 (progress): a cascade that has started ends with the registry entry
\* of its client deleted.
C12_CascadeEnds ==
    \A x \in ClientIds :
        (\E t \in TaskIds : tasks[t].kind = "disc" /\ tasks[t].cid = x) ~> (clients[x] = NoSocket)

C13_CascadeOnce ==
    \A t, u \in TaskIds :
        (t # u /\ tasks[t].kind = "disc" /\ tasks[u].kind = "disc")
            => tasks[t].sock # tasks[u].sock

\* The frames a session can send: the two control frames and text that is
\* not JSON.
FrameKinds == {"subscribe", "unsubscribe", "malformed"}

\* C14: an inbound frame on a registered session whose identity is no longer
\* valid changes neither the subscription index nor the session's local set,
\* starts no handler, is not acknowledged, and the socket is closed.
C14_ValidatedBeforeProcessing ==
    [][\A s \in Sockets, a \in FrameKinds, c \in Channels \cup {NoChannel} :
          ( /\ budget' = budget - 1
            /\ HandleMessage(s, a, c)
            /\ GetClientByWebSocket(s) # {}
            /\ \A x \in GetClientByWebSocket(s) : ~ValidateClientId(x) )
          => /\ UNCHANGED <<chanSubs, clientSubs, sessChannels, tasks>>
             /\ \A m \in sent' : m[2].type = "close"
             /\ sockState'[s] = "closing"]_vars

C16_TickSteps ==
    [][/\ \A s \in Sockets :
             (timers[s] # NoClient /\ timers'[s] = NoClient) =>
                LET x == timers[s]
                IN  \/ clients[x] = NoSocket
                    \/ /\ ~ValidateClientId(x)
                       /\ sockState'[s] # "open"
                       /\ IF sessChannels[clients[x]] = {}
                          THEN clients'[x] = NoSocket
                          ELSE \E t \in TaskIds :
                                  /\ StepOf(t) /\ tasks'[t].kind = "disc"
                                  /\ tasks'[t].sock = clients[x] /\ tasks'[t].cid = x
       /\ \A m \in sent' :
             (m[2].type = "close" /\ m[2].ch = "Client ID validation failed")
                => (timers[m[1]] # NoClient /\ ~ValidateClientId(timers[m[1]]))
      ]_vars

\* C16 (progress): a registered session whose id no longer validates is
\* eventually closed and out of the registry.
C16_EventuallyDisconnected ==
    \A s \in Sockets, x \in ClientIds :
        (clients[x] = s /\ ~ValidateClientId(x))
            ~> (sockState[s] # "open" /\ clients[x] # s)

\* C16: if the identity of a registered session becomes invalid, the
\* periodic re-validation eventually closes its socket, removes the session
\* from the registry and unsubscribes its channels; while the identity is
\* valid the interval never disconnects the session.
C16_RevalidationDisconnects == C16_TickSteps /\ C16_EventuallyDisconnected

\* C17: in every reachable state each channel's history holds at most 1000
\* entries, and no read of a history answers more than 1000 entries.
C17_HistoryBounded ==
    /\ \A c \in Channels : Len(history[c]) <= HISTORY_LAST + 1
    /\ Len(resp.body) <= HISTORY_LAST + 1

\* No publish is between its request and the end of storeNotification.
StoresDone ==
    \A t \in TaskIds : ~(tasks[t].kind = "publish" /\ tasks[t].pc \in {"lpush", "ltrim"})

\* The notifications of this run that the history of c holds.
Published(c) == {history[c][i] : i \in 1..Len(history[c])} \cap NotifIds

\* The members of S, largest first.
NewestFirst(S) ==
    CHOOSE seq \in [1..Cardinality(S) -> S] :
        \A i, j \in 1..Cardinality(S) : i < j => seq[i] > seq[j]

FirstN(list, n) == SubSeq(list, 1, IF n < Len(list) THEN n ELSE Len(list))

C19_ReadFirstEntries ==
    [][\A t \in TaskIds :
          (tasks[t].kind = "history" /\ StepOf(t)) =>
              /\ resp'.status = 200
              /\ resp'.body = IF tasks[t].limit <= 0 THEN <<>>
                              ELSE FirstN(history[tasks[t].ch], tasks[t].limit)]_vars

\* C20: a create under a name whose rules record exists - by the route, by
\* the test endpoint or by the start-up - is refused before createChannel is
\* called, and no createChannel changes the rules of an existing channel.
C20_CreateIsInsertOnly ==
    [][\A t \in TaskIds :
          /\ (tasks[t] = Idle /\ tasks'[t].kind = "create")
                => ~KeyExists(rules[tasks'[t].ch])
          /\ (tasks[t].kind = "create" /\ StepOf(t) /\ KeyExists(rules[tasks[t].ch]))
                => rules' = rules]_vars

\* C21: when a delete of channel C has run with no other handler on C in
\* flight and answers, C has no rules record, no subscriber, is in no
\* client's channel set and has an empty history.
C21_DeleteChannelCleans ==
    [][\A t \in TaskIds :
          (tasks[t].kind = "delete" /\ tasks'[t] = Idle /\ t \notin overlap) =>
              LET c == tasks[t].ch
              IN  /\ ~KeyExists(rules'[c])
                  /\ chanSubs'[c] = {}
                  /\ \A x \in ClientIds : c \notin clientSubs'[x]
                  /\ history'[c] = <<>>]_vars

\* The handlers that write the subscription index: subscribe and unsubscribe
\* (HTTP and WebSocket), grant, the deletes, the disconnect cascade and a
\* publish (which evicts).
IndexWriters ==
    {"httpsub", "httpunsub", "subscribe", "unsubscribe", "grant", "delete",
     "delclient", "disc", "publish"}

\* C30: whenever no handler that writes the subscription index is in flight,
\* X is in the subscriber set of C exactly when C is in the channel set of X.
C30_IndexesAgree ==
    (\A t \in TaskIds : tasks[t].kind \notin IndexWriters) =>
        \A x \in ClientIds, c \in Channels :
            x \in chanSubs[c] <=> c \in clientSubs[x]

\* Handler t is a grant or revoke handler that takes the step: it starts, or
\* it resumes.
AccessStep(t) ==
    \/ tasks[t].kind = "idle" /\ tasks'[t].kind \in {"grant", "revoke"}
    \/ tasks[t].kind \in {"grant", "revoke"} /\ tasks'[t] # tasks[t]

\* The channel a handler that takes a step works on.
ChannelOf(t) == IF tasks[t].kind = "idle" THEN tasks'[t].ch ELSE tasks[t].ch

\* C22: every client has access to a public channel, granted or not, and a
\* grant or revoke on a public channel ends at the public-channel test (400
\* "Public channel") without a change of the rules or of any subscription.
C22_PublicChannelOpen ==
    /\ [](\A c \in Channels, x \in ClientIds :
             IsPublic(rules[c]) => HasChannelAccess(rules[c], x))
    /\ [][\A t \in TaskIds :
             (AccessStep(t) /\ IsPublic(rules[ChannelOf(t)])) =>
                 /\ UNCHANGED <<rules, chanSubs, clientSubs>>
                 /\ tasks[t].kind # "idle" =>
                        (tasks[t].pc = "rules" /\ tasks'[t] = Idle)]_vars

\* A grant or revoke handler is at the public-channel test of a public
\* channel whose allow-list lacks the client.
C22_Witness ==
    \E t \in TaskIds :
        /\ tasks[t].kind \in {"grant", "revoke"} /\ tasks[t].pc = "rules"
        /\ IsPublic(rules[tasks[t].ch])
        /\ ~Includes(AllowedClientIds(rules[tasks[t].ch]), tasks[t].cid)

\* How often x occurs in a list.
Occurrences(list, x) == Cardinality({i \in 1..Len(list) : list[i] = x})

\* C23: a grant of X on an existing private channel C is not rejected and,
\* when it answers, X is in allowedClientIds exactly once, the subscription
\* (X, C) is recorded in both directions and hasChannelAccess(X, C) is true;
\* a grant on a channel without a rules record starts no handler and changes
\* nothing (404).
C23_GrantAddsOnceAndSubscribes ==
    [][/\ \A t \in TaskIds :
             (tasks[t].kind = "grant" /\ tasks'[t] # tasks[t]) =>
                 LET c == tasks[t].ch
                     x == tasks[t].cid
                 IN  IF tasks[t].pc = "rules" /\ ~IsPublic(rules[c])
                     THEN tasks'[t].kind = "grant"
                     ELSE tasks'[t] = Idle /\ tasks[t].pc = "sadd2" =>
                             /\ Occurrences(AllowedClientIds(rules'[c]), x) = 1
                             /\ x \in chanSubs'[c]
                             /\ c \in clientSubs'[x]
                             /\ HasChannelAccess(rules'[c], x)
       /\ \A c \in Channels, x \in ClientIds :
             (budget' = budget - 1 /\ HttpGrant(c, x) /\ ~ValidateChannel(c)) =>
                 UNCHANGED <<clientRec, rules, chanSubs, clientSubs, history, tasks>>]_vars

\* A grant on a private channel has answered as the last request of the run:
\* the client is in the allow-list and subscribed in both directions.
C23_Witness ==
    \E c \in Channels, x \in ClientIds :
        /\ grantLog[<<x, c>>] = "granted"
        /\ ~IsPublic(rules[c])
        /\ Includes(AllowedClientIds(rules[c]), x)
        /\ x \in chanSubs[c] /\ c \in clientSubs[x]
        /\ \A t \in TaskIds : tasks[t].kind = "idle"
        /\ budget = 0

\* Handler t is an HTTP unsubscribe handler that takes the step.
UnsubscribeStep(t) ==
    \/ tasks[t].kind = "idle" /\ tasks'[t].kind = "httpunsub"
    \/ tasks[t].kind = "httpunsub" /\ tasks'[t] # tasks[t]

\* Handler t is a revoke handler that takes the step.
RevokeStep(t) ==
    \/ tasks[t].kind = "idle" /\ tasks'[t].kind = "revoke"
    \/ tasks[t].kind = "revoke" /\ tasks'[t] # tasks[t]

\* The client id a handler that takes a step works on.
ClientOf(t) == IF tasks[t].kind = "idle" THEN tasks'[t].cid ELSE tasks[t].cid

\* C24: an unsubscribe of a pair that is not subscribed runs to its answer
\* and leaves both subscription sets as they are; a revoke of a client that
\* is not in the allow-list of a private channel runs to its answer and
\* leaves the rules as they are; after either has answered the pair is not
\* subscribed, respectively the client not in the allow-list, so that a
\* second application changes nothing.
C24_UnsubscribeRevokeIdempotent ==
    [][\A t \in TaskIds :
          LET c == ChannelOf(t)
              x == ClientOf(t)
          IN  /\ UnsubscribeStep(t) =>
                    /\ (x \notin chanSubs[c] /\ c \notin clientSubs[x]) =>
                           UNCHANGED <<chanSubs, clientSubs, rules>>
                    /\ tasks'[t] = Idle =>
                           (x \notin chanSubs'[c] /\ c \notin clientSubs'[x])
              /\ (RevokeStep(t) /\ ~IsPublic(rules[c])) =>
                    /\ ~Includes(AllowedClientIds(rules[c]), x) =>
                           UNCHANGED <<chanSubs, clientSubs, rules>>
                    /\ tasks'[t] = Idle =>
                           /\ tasks[t].pc = "hset"
                           /\ ~Includes(AllowedClientIds(rules'[c]), x)]_vars

\* A revoke of a client that is not in the allow-list of a private channel is
\* at its HSET, and the client is not subscribed to the channel.
C24_Witness ==
    \E t \in TaskIds :
        /\ tasks[t].kind = "revoke" /\ tasks[t].pc = "hset"
        /\ KeyExists(rules[tasks[t].ch]) /\ ~IsPublic(rules[tasks[t].ch])
        /\ ~Includes(AllowedClientIds(rules[tasks[t].ch]), tasks[t].cid)
        /\ tasks[t].cid \notin chanSubs[tasks[t].ch]
        /\ tasks[t].ch \notin clientSubs[tasks[t].cid]

\* The entries of a JSON array.
Entries(list) == {list[i] : i \in 1..Len(list)}

Identities(rec) == {y \in ClientIds : rec[y] > 0}

\* C27: a create-client request for an id that validates creates no record;
\* for an id that does not validate it creates the record of exactly that
\* id, so that repeating the request never yields a second identity.
C27_CreateUnderRequestedId ==
    [][\A x \in ClientIds :
          (budget' = budget - 1 /\ HttpCreateClient(x)) =>
              Identities(clientRec') = Identities(clientRec) \cup {x}]_vars

\* C28: when a delete of client X has run with no other handler in flight
\* and answers 200, X is in no allowedClientIds and in no subscriber set, the
\* channel set of X is empty, X does not validate, and deletedSubscriptions
\* is the number of channels read from the channel set of X; a delete of an
\* id that does not validate answers 404 and changes nothing.
C28_DeleteClientCleans ==
    [][/\ \A t \in TaskIds :
             (tasks[t].kind = "delclient" /\ tasks'[t] = Idle /\ t \notin overlap) =>
                 LET x == tasks[t].cid
                 IN  /\ \A c \in Channels :
                           /\ ~Includes(AllowedClientIds(rules'[c]), x)
                           /\ x \notin chanSubs'[c]
                     /\ clientSubs'[x] = {}
                     /\ clientRec'[x] = 0
                     /\ resp'.status = 200
                     /\ resp'.body[1] = Cardinality(tasks[t].after)
       /\ \A x \in ClientIds :
             (budget' = budget - 1 /\ HttpDeleteClient(x) /\ ~ValidateClientId(x)) =>
                 /\ resp'.status = 404
                 /\ UNCHANGED <<clientRec, rules, chanSubs, clientSubs, history, tasks>>]_vars

\* The step changes no rules, no subscription set, no history and no
\* identity record.
StoreUnchanged == UNCHANGED <<clientRec, rules, chanSubs, clientSubs, history>>

\* C29: a request that is answered 404, 409 or 400 (publish, history read,
\* subscribe, grant or revoke on a channel without record; create of an
\* existing channel; grant or revoke on a public channel; delete of an
\* unknown client or channel; a missing channel name or client id) changes
\* no rules, no subscription set, no history and no identity record, and its
\* handler ends with that step.
C29_ErrorsChangeNothing ==
    [][/\ \A c \in Channels \cup {NoChannel} :
             /\ (budget' = budget - 1 /\ HttpPublish(c) /\ ~ValidateChannel(c)) =>
                    (StoreUnchanged /\ UNCHANGED tasks)
             /\ \A r \in RuleInputs :
                    ( /\ budget' = budget - 1 /\ HttpCreateChannel(c, r)
                      /\ (c = NoChannel \/ ValidateChannel(c)) ) =>
                        (StoreUnchanged /\ UNCHANGED tasks)
       /\ \A c \in Channels :
             /\ \A q \in QueryLimits :
                    ( /\ budget' = budget - 1 /\ HttpGetNotifications(c, q)
                      /\ ~ValidateChannel(c) ) =>
                        (StoreUnchanged /\ UNCHANGED tasks /\ resp'.status = 404)
             /\ (budget' = budget - 1 /\ HttpDeleteChannel(c) /\ ~ValidateChannel(c)) =>
                    (StoreUnchanged /\ UNCHANGED tasks)
             /\ \A x \in ClientIds \cup {NoClient} :
                    /\ ( /\ budget' = budget - 1 /\ HttpSubscribe(c, x)
                         /\ (~ValidateChannel(c) \/ x = NoClient) ) =>
                           (StoreUnchanged /\ UNCHANGED tasks)
                    /\ (budget' = budget - 1 /\ HttpUnsubscribe(c, x) /\ x = NoClient) =>
                           (StoreUnchanged /\ UNCHANGED tasks)
             /\ \A x \in ClientIds :
                    /\ (budget' = budget - 1 /\ HttpGrant(c, x) /\ ~ValidateChannel(c)) =>
                           (StoreUnchanged /\ UNCHANGED tasks)
                    /\ (budget' = budget - 1 /\ HttpRevoke(c, x) /\ ~ValidateChannel(c)) =>
                           (StoreUnchanged /\ UNCHANGED tasks)
       /\ \A x \in ClientIds :
             (budget' = budget - 1 /\ HttpDeleteClient(x) /\ ~ValidateClientId(x)) =>
                 (StoreUnchanged /\ UNCHANGED tasks /\ resp'.status = 404)
       /\ \A t \in TaskIds :
             ( /\ tasks[t].kind \in {"grant", "revoke"} /\ tasks[t].pc = "rules"
               /\ IsPublic(rules[tasks[t].ch]) /\ tasks'[t] # tasks[t] ) =>
                 (StoreUnchanged /\ tasks'[t] = Idle)]_vars

\* A request for a channel without rules record or for an unknown client has
\* just been answered 404, on a store that holds subscriptions and, for the
\* other channel, rules.
C29_Witness ==
    /\ resp.status = 404
    /\ \A t \in TaskIds : tasks[t].kind = "idle"
    /\ \E c \in Channels : ~KeyExists(rules[c])
    /\ \E c \in Channels : KeyExists(rules[c]) /\ chanSubs[c] # {}
    /\ budget < MaxApi

\* C31: when the server ends a session by shutting down, the session leaves
\* the registry and every channel of its subscribed set is removed from the
\* persisted subscriber set and from the client's subscription set, as the
\* close of the socket by the peer does.
C31_ServerCloseUnwinds ==
    [][Sigterm =>
          \A x \in ClientIds :
              clients[x] # NoSocket =>
                  /\ clients'[x] = NoSocket
                  /\ \A c \in sessChannels[clients[x]] :
                         x \notin chanSubs'[c] /\ c \notin clientSubs'[x]]_vars

\* C32: a channel whose rules record carries maxSubscribers = N > 0 never has
\* more than N clients in its subscriber set (0 means unlimited).
C32_SubscriberCap ==
    \A c \in Channels :
        (KeyExists(rules[c]) /\ rules[c].maxSubscribers > 0) =>
            Cardinality(chanSubs[c]) <= rules[c].maxSubscribers

\* C33: a notification frame is written to a socket only when the
\* notification is already in the history of its channel; a publish to a
\* channel without rules record appends nothing, sends nothing and starts no
\* broadcast; and a notification that some client has received is among the
\* entries a history read of its channel with limit 1000 answers (no channel
\* is deleted and fewer than 1000 notifications are published here).
C33_StoredBeforeSent ==
    /\ [](\A x \in ClientIds, n \in NotifIds :
             notifCount[x][n] > 0 =>
                 \E c \in Channels :
                     \E i \in 1..Len(GetNotifications(c, HISTORY_LAST + 1)) :
                         GetNotifications(c, HISTORY_LAST + 1)[i] = n)
    /\ [][/\ \A f \in sent' :
                f[2].type = "notification" => f[2].notif \in Published(f[2].ch)
          /\ \A c \in Channels :
                (budget' = budget - 1 /\ HttpPublish(c) /\ ~ValidateChannel(c)) =>
                    (UNCHANGED <<history, tasks, nextNotif>> /\ sent' = {})]_vars

\* A client has received the notification of a publish, which the history
\* of its channel holds, while the other channel has no rules record (a
\* publish to it is refused).
C33_Witness ==
    /\ \E c \in Channels : ~ValidateChannel(c)
    /\ \E x \in ClientIds, n \in NotifIds, c \in Channels :
          notifCount[x][n] > 0 /\ n \in Published(c)

\* C34: a connection admitted for a client id that has a registered session
\* becomes the registered session, and the close of a socket that is not
\* the registered session of its client id neither removes the registry
\* entry nor starts unsubscribing the registered session's channels.
C34_OlderCloseSparesNewer ==
    [][/\ \A t \in TaskIds :
             (HandleConnection(t) /\ ValidateClientId(tasks[t].cid)) =>
                 clients'[tasks[t].cid] = tasks[t].sock
       /\ \A s \in Sockets :
             ( /\ sockState[s] \in {"open", "closing"} /\ sockState'[s] = "closed"
               /\ sockOwner[s] # NoClient
               /\ clients[sockOwner[s]] \notin {s, NoSocket} ) =>
                 /\ clients'[sockOwner[s]] = clients[sockOwner[s]]
                 /\ \A t \in TaskIds :
                        tasks'[t].kind = "disc" => tasks[t].kind = "disc"]_vars

\* C35: when a revoke of client X on a private channel C returns success,
\* hasChannelAccess(X, C) is false, also for a client whose id matches one
\* of the channel's allowedPatterns, and it stays false while no grant of X
\* on C writes the rules.
C35_RevokeDeniesAccess ==
    [][/\ \A t \in TaskIds :
             RevokeChannelAccessHset(t) =>
                 ~HasChannelAccess(rules'[tasks[t].ch], tasks[t].cid)
       /\ \A c \in Channels, x \in ClientIds :
             ( /\ grantLog[<<x, c>>] = "revoked" /\ ~HasChannelAccess(rules[c], x)
               /\ \A t \in TaskIds : ~(GrantHset(t) /\ tasks[t].cid = x) ) =>
                 ~HasChannelAccess(rules'[c], x)]_vars

\* C36: a notification frame is written only to a socket whose client id
\* has an identity record (not deleted, not expired) when the frame is sent.
C36_SentToValidIdentity ==
    [][\A f \in sent' :
          f[2].type = "notification" => ValidateClientId(sockOwner[f[1]])]_vars

\* C37: when a delete of channel C answers, C has no subscriber set and no
\* history, whatever requests on C were in flight beside it (its rules
\* record can only be that of a create that came after the delete removed
\* the old one); and a channel without rules record, subscriber set and
\* history stays so until the HSET of a create of C.
C37_DeletedChannelStaysEmpty ==
    [][\A c \in Channels :
          /\ (\E t \in TaskIds :
                 tasks[t].kind = "delete" /\ tasks[t].ch = c /\ tasks'[t] = Idle) =>
                 (chanSubs'[c] = {} /\ history'[c] = <<>>)
          /\ ( /\ ~KeyExists(rules[c]) /\ chanSubs[c] = {} /\ history[c] = <<>>
               /\ \A t \in TaskIds :
                      ~(tasks[t].kind = "create" /\ tasks[t].ch = c /\ tasks'[t] = Idle) ) =>
                 (~KeyExists(rules'[c]) /\ chanSubs'[c] = {} /\ history'[c] = <<>>)]_vars

\* C38: the write of the rules record by a grant or a revoke for client X
\* changes the membership of no other client in allowedClientIds and leaves
\* isPublic and allowedPatterns as they are, so that after concurrent grants
\* and revokes for different clients every granted client is listed and no
\* revoked one.
C38_NoLostUpdate ==
    [][\A t \in TaskIds :
          (GrantHset(t) \/ RevokeChannelAccessHset(t)) =>
              LET c == tasks[t].ch
              IN  /\ \A y \in ClientIds \ {tasks[t].cid} :
                         Includes(AllowedClientIds(rules'[c]), y)
                             <=> Includes(AllowedClientIds(rules[c]), y)
                  /\ IsPublic(rules'[c]) <=> IsPublic(rules[c])
                  /\ AllowedPatterns(rules'[c]) = AllowedPatterns(rules[c])]_vars

\* C39: when no handler is in flight (and the two sets of the subscription
\* index agree with each other), every channel in the subscribedChannels of
\* a registered session of client X is recorded for X in the subscription
\* index.
C39_SessionMirrorsIndex ==
    ( /\ \A t \in TaskIds : tasks[t].kind = "idle"
      /\ \A x \in ClientIds, c \in Channels : x \in chanSubs[c] <=> c \in clientSubs[x] ) =>
        \A x \in ClientIds :
            clients[x] # NoSocket =>
                \A c \in sessChannels[clients[x]] :
                    x \in chanSubs[c] /\ c \in clientSubs[x]

\* C40: of the create requests for one absent name only one is answered 201:
\* the create that answers 201 finds no rules record when it writes, and the
\* record afterwards is the one of its request.
C40_OneCreateWins ==
    [][\A t \in TaskIds :
          CreateChannelHset(t) =>
              /\ ~KeyExists(rules[tasks[t].ch])
              /\ rules'[tasks[t].ch] = tasks[t].snap]_vars

====
